---- MODULE Spec2Model ----
(***************************************************************************)
(* Model of the declarative endpoint dispatch engine of httpx-decorators:  *)
(* BaseHttpClient (client/index.ts, latest revision) and the error         *)
(* taxonomy of types/index.ts.  One client instance is modelled; a call to *)
(* a decorated method advances from one suspension point (await) of the    *)
(* dispatching function to the next.                                       *)
(***************************************************************************)
EXTENDS Naturals, Sequences, FiniteSets, TLC

VARIABLES
    config,          \* this.config: the client defaults and the onError hook
    requestHooks,    \* this.requestHooks
    responseHooks,   \* this.responseHooks
    errorHooks,      \* this.errorHooks
    pc,              \* position of the dispatching function of the call
    metadata,        \* the EndpointMetadata closed over by the called method
    args,            \* the arguments of the call
    context,         \* the local `context` of the dispatching function
    i,               \* position of the running for-of loop over a hook list
    validated,       \* history: the body handed to the requestSchema
    sent,            \* the AxiosRequestConfig handed to the transport
    response,        \* the local `response`
    responseData,    \* the local `responseData`
    error,           \* the value caught by the catch clause
    processedError,  \* the local `processedError` of the catch clause
    injectedArgs,    \* executionContext.injectedArgs
    result,          \* how the returned promise settled
    trace,           \* history: the stages the call has performed, in order
    reqLog,          \* history: the context handed to each request hook
    errLog,          \* history: the error handed to each error hook
    parameterMetadata, \* Reflect metadata under PARAMETER_METADATA_KEY
    endpointMetadata,  \* Reflect metadata under ENDPOINT_METADATA_KEY
    arrays,          \* the ParameterMetadata[] arrays allocated so far
    objects,         \* the EndpointMetadata objects allocated so far
    timers,          \* the callbacks handed to setTimeout, not yet run
    console,         \* what console.error and console.warn were handed
    thrown,          \* what the last decorator threw to the declaring code
    applied,         \* history: the last decorator applied
    defaultHeaders,  \* axiosInstance.defaults.headers.common
    flights,         \* the concurrent calls of the client
    mutations,       \* history: the number of default-header mutations
    properties,      \* Object.getOwnPropertyNames of each prototype
    boundMethods,    \* the methods the constructor of the client replaced
    bags,            \* the objects callers pass as bags and contexts refer to
    calls            \* the contexts of the calls that run concurrently

vars == <<config, requestHooks, responseHooks, errorHooks, pc, metadata, args,
          context, i, validated, sent, response, responseData, error,
          processedError, injectedArgs, result, trace, reqLog, errLog,
          parameterMetadata, endpointMetadata, arrays, objects, timers,
          console, thrown, applied, defaultHeaders, flights, mutations,
          properties, boundMethods, bags, calls>>

(***************************************************************************)
(* Bounds                                                                  *)
(***************************************************************************)
\* at most this many hooks are registered on the client at one time
MaxHooks == 2

\* at most this many decorators are applied
MaxDecorations == 3

\* at most this many mutations of the default headers are made
MaxMutations == 2

(***************************************************************************)
(* Values                                                                  *)
(***************************************************************************)
Undefined == "undefined"

\* a request body: absent, accepted by the requestSchema, rejected by it
Bodies == {Undefined, "good", "bad"}

\* a transport payload: canonical, accepted with unknown keys, rejected
Payloads == {"user", "userExtra", "garbage"}

NoData == [payload |-> Undefined, mapped |-> FALSE, hooked |-> 0]

RawData(p) == [payload |-> p, mapped |-> FALSE, hooked |-> 0]

NoError ==
    [cls |-> "none", code |-> "none", type |-> "none", id |-> "none",
     originalError |-> "none", errorType |-> "none"]

\* a plain Error (not an HttpDecoratorError) thrown by user or library code
RawError(id) ==
    [cls |-> "Error", code |-> "none", type |-> "none", id |-> id,
     originalError |-> "none", errorType |-> "none"]

HttpDecoratorError(code, original) ==
    [cls |-> "HttpDecoratorError", code |-> code, type |-> "none",
     id |-> "engine", originalError |-> original, errorType |-> "none"]

ValidationError(type) ==
    [cls |-> "ValidationError", code |-> "VALIDATION_ERROR", type |-> type,
     id |-> "engine", originalError |-> "ZodError", errorType |-> "none"]

NetworkError ==
    [cls |-> "NetworkError", code |-> "NETWORK_ERROR", type |-> "none",
     id |-> "engine", originalError |-> "AxiosError", errorType |-> "none"]

CustomError(original, errorTypeName) ==
    [cls |-> "CustomError", code |-> "CUSTOM_ERROR", type |-> "none",
     id |-> "engine", originalError |-> original, errorType |-> errorTypeName]

\* error instanceof HttpDecoratorError
IsHttpDecoratorError(e) ==
    e.cls \in {"HttpDecoratorError", "ValidationError", "NetworkError",
               "CustomError", "ConfigurationError"}

(***************************************************************************)
(* Configuration                                                           *)
(***************************************************************************)
\* a validation flag: true, false, or a present key holding undefined
Flags == {"true", "false", Undefined}

\* config.onError: absent, throwing (or returning a rejected promise),
\* or returning normally the error it was given
OnErrorKinds == {"none", "throws", "returns"}

\* the HttpClientConfig values a client is constructed with
AllClientConfigs ==
    [validateRequest : Flags, validateResponse : Flags, onError : OnErrorKinds]

\* the configurations explored: both validation defaults are set alike
ClientConfigs ==
    {c \in AllClientConfigs : c.validateRequest = c.validateResponse}

\* a string value is the sequence of its characters; a number value is n
Str(chars) == [type |-> "string", chars |-> chars, n |-> 0]

Num(n) == [type |-> "number", chars |-> << >>, n |-> n]

\* the keys of the headers, query parameters and path parameters explored;
\* "constructor" is also the name of a member of Object.prototype
Keys == {"id", "i", "X", "constructor"}

\* the characters of a key
KeyChars(k) ==
    CASE k = "id" -> <<"i", "d">>
      [] k = "i" -> <<"i">>
      [] k = "X" -> <<"X">>
      [] OTHER -> <<"c", "o", "n", "s", "t", "r", "u", "c", "t", "o", "r">>

\* the names `object[name]` finds on the prototype of a plain object
ObjectPrototypeKeys == {"constructor"}

\* an own enumerable property of a bag, as Object.entries lists it
Entry(k, v) == [key |-> k, value |-> v]

\* a bag of headers, query parameters or path parameters: its own
\* properties in the order Object.entries lists them
EmptyBag == << >>

\* the own keys of a bag
KeysOf(bag) == {bag[n].key : n \in 1..Len(bag)}

\* an allow-policy (headers, query, params of HttpDecoratorConfig): absent,
\* false, true, or an object whose own keys `on` hold true and `off` false
Policy(kind, on, off) == [kind |-> kind, on |-> on, off |-> off]

NoPolicy == Policy("absent", {}, {})

\* context.mapper: absent, a function that returns, a function that throws
MapperKinds == {"none", "fn", "throws"}

\* the EndpointMetadata of the decorated methods of the client class
AllEndpoints ==
    [requestSchema : BOOLEAN, responseSchema : BOOLEAN, errorType : BOOLEAN,
     mapper : MapperKinds, validateRequest : {"true", "false"},
     validateResponse : {"true", "false"}, url : {<<"/", "u">>},
     headers : {NoPolicy}, query : {NoPolicy}, params : {NoPolicy},
     parameters : {<< >>}]

\* the endpoints explored: both validation flags are declared alike
Endpoints ==
    {m \in AllEndpoints : m.validateRequest = m.validateResponse}

NoEndpoint ==
    [requestSchema |-> FALSE, responseSchema |-> FALSE, errorType |-> FALSE,
     mapper |-> "none", validateRequest |-> "true", validateResponse |-> "true",
     url |-> << >>, headers |-> NoPolicy, query |-> NoPolicy,
     params |-> NoPolicy, parameters |-> << >>]

\* a ParameterMetadata: the decorator `type` on the argument at `index`
\* (arguments are counted from 1 here), its key (Undefined when it has
\* none) and whether it carries a schema
Binding(index, type, key, schema) ==
    [index |-> index, type |-> type, key |-> key, schema |-> schema]

\* the name of the declared error class, metadata.config.errorType.name
ErrorTypeName == "ApiError"

\* an argument of a call: a RequestParams bag (an object with a `body` key
\* and, when hasHeaders, hasQuery, hasParams, the keys `headers`, `query`,
\* `params`) or, when bag is FALSE, the plain value `body`, an object with
\* the own properties `entries` when it has any
Argument(bag, body, headers, query, params) ==
    [bag |-> bag, body |-> body,
     hasHeaders |-> headers # EmptyBag, headers |-> headers,
     hasQuery |-> query # EmptyBag, query |-> query,
     hasParams |-> params # EmptyBag, params |-> params,
     entries |-> EmptyBag]

\* a plain object passed as an argument: none of its keys is `body`,
\* `query`, `headers` or `params`
ObjectArgument(body, entries) ==
    [Argument(FALSE, body, EmptyBag, EmptyBag, EmptyBag)
        EXCEPT !.entries = entries]

\* an argument taken as a value: a RequestParams bag is an object of its
\* own, which is neither undefined nor a body the schemas know
ArgValue(a) == IF a.bag THEN "requestParams" ELSE a.body

\* the array [v1, v2, ...] of the values vs, as a value
RECURSIVE Items(_)
Items(vs) ==
    IF vs = << >> THEN ""
    ELSE IF Len(vs) = 1 THEN Head(vs)
    ELSE Head(vs) \o "," \o Items(Tail(vs))

ArrayOf(vs) == "[" \o Items(vs) \o "]"

Arguments == {Argument(TRUE, b, EmptyBag, EmptyBag, EmptyBag) : b \in Bodies}

\* the argument lists a method is called with
CallArgs == {<<a>> : a \in Arguments}

NoArgs == << >>

NoContext ==
    [url |-> << >>, body |-> Undefined, headers |-> EmptyBag,
     query |-> EmptyBag, params |-> EmptyBag, requestSchema |-> FALSE,
     responseSchema |-> FALSE, errorType |-> FALSE, mapper |-> "none"]

(***************************************************************************)
(* Hooks                                                                   *)
(***************************************************************************)
\* a request hook adds header X to the context, replaces the body by one
\* the requestSchema rejects, or throws
RequestHookKinds == {"addX", "corrupt", "throw"}

\* a request hook returns a context object of its own making: the method,
\* url, body, headers, query and params of the one it was handed
FreshContextHooks == {"fresh"}

\* a response hook returns a changed result, or throws
ResponseHookKinds == {"stamp", "throw"}

\* an error hook returns the error it was given, returns another error,
\* or throws
ErrorHookKinds == {"pass", "replace", "throw"}

\* the methods the body of a decorated method may be
BodyKinds == {"returns", "throws"}

\* the settlements of the transport's promise before the interceptors
TransportOutcomes == Payloads \cup {"failure"}

(***************************************************************************)
(* Request context                                                         *)
(***************************************************************************)
\* the decimal digits of a natural number
Digit(n) ==
    CASE n = 0 -> "0" [] n = 1 -> "1" [] n = 2 -> "2" [] n = 3 -> "3"
      [] n = 4 -> "4" [] n = 5 -> "5" [] n = 6 -> "6" [] n = 7 -> "7"
      [] n = 8 -> "8" [] OTHER -> "9"

RECURSIVE Digits(_)
Digits(n) ==
    IF n < 10 THEN <<Digit(n)>> ELSE Digits(n \div 10) \o <<Digit(n % 10)>>

\* String(value): the characters of the string form of a value
String(v) == IF v.type = "number" THEN Digits(v.n) ELSE v.chars

\* configHeaders[key] is truthy, for a policy that is an object: an own
\* key decides, and a name that is not an own key is looked up on
\* Object.prototype
PolicyAllows(policy, key) ==
    IF key \in policy.on THEN TRUE
    ELSE IF key \in policy.off THEN FALSE
    ELSE key \in ObjectPrototypeKeys

\* the entries of a bag whose key the object policy allows
Allowed(bag, policy) ==
    SelectSeq(bag, LAMBDA e : PolicyAllows(policy, e.key))

\* processHeaders(headers, configHeaders): every value kept is stringified
processHeaders(hasHeaders, headers, configHeaders) ==
    IF configHeaders.kind \in {"absent", "false"} \/ ~hasHeaders
    THEN EmptyBag
    ELSE LET kept == IF configHeaders.kind = "true"
                     THEN headers
                     ELSE Allowed(headers, configHeaders)
         IN  [n \in 1..Len(kept) |->
                 Entry(kept[n].key, Str(String(kept[n].value)))]

\* processQuery(query, configQuery)
processQuery(hasQuery, query, configQuery) ==
    IF configQuery.kind \in {"absent", "false"} \/ ~hasQuery
    THEN EmptyBag
    ELSE IF configQuery.kind = "true"
         THEN query
         ELSE Allowed(query, configQuery)

\* processParams(params, configParams)
processParams(hasParams, params, configParams) ==
    IF configParams.kind \in {"absent", "false"} \/ ~hasParams
    THEN EmptyBag
    ELSE IF configParams.kind = "true"
         THEN params
         ELSE Allowed(params, configParams)

buildRequestContextFromParams(m, params) ==
    [url |-> m.url, body |-> params.body,
     headers |-> processHeaders(params.hasHeaders, params.headers, m.headers),
     query |-> processQuery(params.hasQuery, params.query, m.query),
     params |-> processParams(params.hasParams, params.params, m.params),
     requestSchema |-> m.requestSchema, responseSchema |-> m.responseSchema,
     errorType |-> m.errorType, mapper |-> m.mapper]

\* the indices (1-based here) of the arguments no binding covers
UndecoratedIndices(m, a) ==
    {k \in 1..Len(a) : \A n \in 1..Len(m.parameters) : m.parameters[n].index # k}

\* args.filter((_, index) => !decoratedIndices.includes(index)): the
\* values of the arguments no binding covers, in argument order
RECURSIVE BodyArgs(_, _, _)
BodyArgs(m, a, k) ==
    IF k > Len(a) THEN << >>
    ELSE (IF k \in UndecoratedIndices(m, a) THEN <<ArgValue(a[k])>> ELSE << >>)
             \o BodyArgs(m, a, k + 1)

\* the positional convention with `bodyArgs.length === 1 ? ... :` left out
PositionalBody_AlwaysArray(m, a) ==
    LET req == {n \in 1..Len(m.parameters) : m.parameters[n].type = "request"}
        first == CHOOSE n \in req : \A n2 \in req : n <= n2
        rest == BodyArgs(m, a, 1)
    IN  IF req # {} /\ m.parameters[first].index <= Len(a)
           /\ ArgValue(a[m.parameters[first].index]) # Undefined
        THEN ArgValue(a[m.parameters[first].index])
        ELSE IF rest = << >> THEN Undefined
        ELSE ArrayOf(rest)

\* the body of the positional convention: the argument of the first
\* `request` binding when defined; else nothing when every argument is
\* covered, the single uncovered argument, or the array of the uncovered
\* arguments
PositionalBody(m, a) ==
    LET req == {n \in 1..Len(m.parameters) : m.parameters[n].type = "request"}
        first == CHOOSE n \in req : \A n2 \in req : n <= n2
        rest == BodyArgs(m, a, 1)
    IN  IF req # {} /\ m.parameters[first].index <= Len(a)
           /\ ArgValue(a[m.parameters[first].index]) # Undefined
        THEN ArgValue(a[m.parameters[first].index])
        ELSE IF rest = << >> THEN Undefined
        ELSE IF Len(rest) = 1 THEN rest[1]
        ELSE ArrayOf(rest)

\* the positional convention taking the bag bound by @Params() as input
buildRequestContextFromArgs_ParamsRead(m, a) ==
    IF Len(a) > 0 /\ a[1].bag
    THEN buildRequestContextFromParams(m, a[1])
    ELSE LET bound == {n \in 1..Len(m.parameters) :
                          /\ m.parameters[n].type = "params"
                          /\ m.parameters[n].key = Undefined
                          /\ m.parameters[n].index <= Len(a)}
         IN  [url |-> m.url, body |-> PositionalBody(m, a),
              headers |-> EmptyBag, query |-> EmptyBag,
              params |-> IF bound = {} THEN EmptyBag
                         ELSE a[m.parameters[CHOOSE n \in bound : TRUE].index]
                                  .entries,
              requestSchema |-> m.requestSchema,
              responseSchema |-> m.responseSchema,
              errorType |-> m.errorType, mapper |-> m.mapper]

\* the context of a call: a first argument that is a RequestParams bag is
\* read as one, else the roles of the arguments come from the bindings
buildRequestContextFromArgs(m, a) ==
    IF Len(a) > 0 /\ a[1].bag
    THEN buildRequestContextFromParams(m, a[1])
    ELSE [url |-> m.url, body |-> PositionalBody(m, a),
          headers |-> EmptyBag, query |-> EmptyBag, params |-> EmptyBag,
          requestSchema |-> m.requestSchema,
          responseSchema |-> m.responseSchema,
          errorType |-> m.errorType, mapper |-> m.mapper]

(***************************************************************************)
(* Validation, mapping, classification                                     *)
(***************************************************************************)
\* this.config.validateRequest ?? metadata.config.validateRequest
RequestValidationEnabled(c, m) ==
    IF c.validateRequest # Undefined
    THEN c.validateRequest = "true"
    ELSE m.validateRequest = "true"

\* this.config.validateResponse ?? metadata.config.validateResponse
ResponseValidationEnabled(c, m) ==
    IF c.validateResponse # Undefined
    THEN c.validateResponse = "true"
    ELSE m.validateResponse = "true"


\* validateRequest with the schema.parse call left out
validateRequestThrows_Skipped(ctx) == FALSE

\* validateRequest(context, schema) throws: schema.parse(context.body)
\* raises a ZodError, and only a defined body is parsed
validateRequestThrows(ctx) ==
    ctx.body # Undefined /\ ctx.body = "bad"


\* validateResponse with the ZodError swallowed
validateResponseThrows_Skipped(data) == FALSE

\* schema.parse(data) of the responseSchema raises a ZodError
validateResponseThrows(data) ==
    data.payload \in {"garbage", Undefined}

\* the value schema.parse(data) returns: unknown keys are stripped
validateResponse(data) ==
    [data EXCEPT !.payload = IF @ = "userExtra" THEN "user" ELSE @]

\* context.mapper(responseData) of a mapper that returns
mapper(data) == [data EXCEPT !.mapped = TRUE]


\* the catch clause without the final EXECUTION_ERROR wrapping
Classify_Rethrow(m, e) ==
    IF m.errorType /\ ~IsHttpDecoratorError(e)
    THEN CustomError(e.id, ErrorTypeName)
    ELSE e

\* the catch clause wrapping whatever was caught when errorType is declared
Classify_AlwaysWrap(m, e) ==
    IF m.errorType
    THEN CustomError(e.id, ErrorTypeName)
    ELSE IF IsHttpDecoratorError(e)
         THEN e
         ELSE HttpDecoratorError("EXECUTION_ERROR", e.id)

\* the catch clause letting the exception of the mapper through as thrown
Classify_MapperUnwrapped(m, e) ==
    IF e.id = "mapper" THEN e
    ELSE IF m.errorType /\ ~IsHttpDecoratorError(e)
    THEN CustomError(e.id, ErrorTypeName)
    ELSE IF IsHttpDecoratorError(e)
         THEN e
         ELSE HttpDecoratorError("EXECUTION_ERROR", e.id)

\* what the catch clause throws to the caller for the caught value e
Classify(m, e) ==
    IF m.errorType /\ ~IsHttpDecoratorError(e)
    THEN CustomError(e.id, ErrorTypeName)
    ELSE IF IsHttpDecoratorError(e)
         THEN e
         ELSE HttpDecoratorError("EXECUTION_ERROR", e.id)

(***************************************************************************)
(* Hook functions                                                          *)
(***************************************************************************)
\* bag[key] = value: an own key keeps its place, a new key goes last
SetKey(bag, k, v) ==
    IF k \in KeysOf(bag)
    THEN [n \in 1..Len(bag) |-> IF bag[n].key = k THEN Entry(k, v) ELSE bag[n]]
    ELSE Append(bag, Entry(k, v))

\* the context a request hook that returns hands back
ApplyRequestHook(h, ctx) ==
    IF h = "addX"
    THEN [ctx EXCEPT !.headers = SetKey(@, "X", Str(<<"1">>))]
    ELSE IF h = "corrupt" THEN [ctx EXCEPT !.body = "bad"]
    ELSE IF h = "fresh"
    THEN [ctx EXCEPT !.requestSchema = FALSE, !.responseSchema = FALSE,
                     !.errorType = FALSE, !.mapper = "none"]
    ELSE ctx

\* the result a response hook that returns hands back
ApplyResponseHook(h, data) ==
    IF h = "stamp" THEN [data EXCEPT !.hooked = @ + 1] ELSE data

\* the error an error hook that returns hands back
ApplyErrorHook(h, e) ==
    IF h = "replace" THEN RawError("replacement") ELSE e

\* a value computed by the body of the decorated method itself
BodyResult == [payload |-> "bodyResult", mapped |-> FALSE, hooked |-> 0]

\* one element of injectedArgs: where its value comes from, whether the
\* value is defined, the value
Slot(type, defined, value) ==
    [slot |-> type, defined |-> defined, value |-> value]

\* [...args]: injectedArgs starts as a copy of the arguments of the call
CopyOfArgs(a) == [k \in 1..Len(a) |-> Slot("arg", TRUE, a[k])]

\* bag[key] of an optional key: the bag itself when the binding has no key
ValueAt(type, bag, key) ==
    IF key = Undefined THEN Slot(type, TRUE, bag)
    ELSE IF key \in KeysOf(bag)
         THEN Slot(type, TRUE,
                   bag[CHOOSE n \in 1..Len(bag) : bag[n].key = key].value)
         ELSE Slot(type, FALSE, Undefined)

\* the switch of injectParameterValues
ValueToInject(param, values) ==
    CASE param.type = "response" ->
             Slot("response",
                  values.response.payload # Undefined \/ values.response.mapped,
                  values.response)
      [] param.type = "query" -> ValueAt("query", values.query, param.key)
      [] param.type = "headers" -> ValueAt("headers", values.headers, param.key)
      [] param.type = "params" -> ValueAt("params", values.params, param.key)
      [] OTHER -> Slot("request", values.request # Undefined, values.request)

\* param.schema.parse(valueToInject) raises a ZodError: the schema of a
\* response or request binding is the one of the endpoint, the schema of
\* a query, headers or params binding accepts a string, or a bag of them
ParamSchemaThrows(param, v) ==
    /\ param.schema
    /\ v.defined
    /\ \/ v.slot = "response" /\ v.value.payload \in {"garbage", Undefined}
       \/ v.slot = "request" /\ v.value = "bad"
       \/ /\ v.slot \in {"query", "headers", "params"}
          /\ IF param.key # Undefined
             THEN v.value.type = "number"
             ELSE \E n \in 1..Len(v.value) : v.value[n].value.type = "number"

\* the value param.schema.parse(valueToInject) returns
ParamSchemaParse(param, v) ==
    IF param.schema /\ v.defined /\ v.slot = "response"
    THEN [v EXCEPT !.value.payload = IF @ = "userExtra" THEN "user" ELSE @]
    ELSE v

\* the first binding whose schema rejects its value, 0 when there is none
FirstRejected(m, values) ==
    LET bad == {n \in 1..Len(m.parameters) :
                  ParamSchemaThrows(m.parameters[n],
                                    ValueToInject(m.parameters[n], values))}
    IN  IF bad = {} THEN 0 ELSE CHOOSE n \in bad : \A n2 \in bad : n <= n2

\* the injection leaving alone an argument the caller passed
injectParameterValues_KeepCaller(m, injected, values, count) ==
    LET done == 1..count
        top == CHOOSE t \in 0..(Len(injected) + Len(m.parameters) + 2) :
                  /\ t >= Len(injected)
                  /\ \A n \in done : t >= m.parameters[n].index
                  /\ \/ t = Len(injected)
                     \/ \E n \in done : t = m.parameters[n].index
    IN  [k \in 1..top |->
            LET bs == {n \in done : m.parameters[n].index = k}
            IN  IF k <= Len(injected)
                THEN injected[k]
                ELSE IF bs # {}
                THEN LET last == CHOOSE n \in bs : \A n2 \in bs : n2 <= n
                     IN  ParamSchemaParse(m.parameters[last],
                             ValueToInject(m.parameters[last], values))
                ELSE Slot("hole", FALSE, Undefined)]

\* injectedArgs after the loop of injectParameterValues has assigned the
\* first `count` bindings: a later binding of an index overwrites an
\* earlier one, an index beyond the arguments lengthens the array
injectParameterValues(m, injected, values, count) ==
    LET done == 1..count
        top == CHOOSE t \in 0..(Len(injected) + Len(m.parameters) + 2) :
                  /\ t >= Len(injected)
                  /\ \A n \in done : t >= m.parameters[n].index
                  /\ \/ t = Len(injected)
                     \/ \E n \in done : t = m.parameters[n].index
    IN  [k \in 1..top |->
            LET bs == {n \in done : m.parameters[n].index = k}
            IN  IF bs # {}
                THEN LET last == CHOOSE n \in bs : \A n2 \in bs : n2 <= n
                     IN  ParamSchemaParse(m.parameters[last],
                             ValueToInject(m.parameters[last], values))
                ELSE IF k <= Len(injected)
                     THEN injected[k]
                     ELSE Slot("hole", FALSE, Undefined)]

\* the endpoint has a @Response() binding
HasResponseSlot(m) ==
    \E n \in 1..Len(m.parameters) : m.parameters[n].type = "response"

\* the indices of the arguments a @Response() binding is the last to fill
ResponseSlots(m) ==
    {m.parameters[n].index : n \in
        {n \in 1..Len(m.parameters) :
            /\ m.parameters[n].type = "response"
            /\ \A n2 \in (n + 1)..Len(m.parameters) :
                   m.parameters[n2].index # m.parameters[n].index}}

\* originalMethod.apply(this, injectedArgs): the value a body that returns
\* hands back, either its @Response() argument or a value of its own
originalMethod(b, m, injected) ==
    IF b = "returnsResponse" /\ ResponseSlots(m) # {}
    THEN injected[CHOOSE k \in ResponseSlots(m) :
                     \A k2 \in ResponseSlots(m) : k <= k2].value
    ELSE BodyResult

\* no body was parsed / no request was issued / no response arrived
NotValidated == [done |-> FALSE, body |-> Undefined]

NotSent ==
    [done |-> FALSE, url |-> << >>, body |-> Undefined, headers |-> EmptyBag,
     params |-> EmptyBag]

NoResponse == [status |-> "none", data |-> NoData]

\* the number of occurrences of stage x in the history t
Count(t, x) == Cardinality({k \in 1..Len(t) : t[k] = x})

\* the position of the first occurrence of pat in s, 0 when there is none
IndexOf(s, pat) ==
    LET at == {p \in 1..(Len(s) + 1 - Len(pat)) :
                  SubSeq(s, p, p + Len(pat) - 1) = pat}
    IN  IF at = {} THEN 0 ELSE CHOOSE p \in at : \A q \in at : p <= q

\* s.replace(pat, by) for a string pattern: the first occurrence only (the
\* replacement holds no `$`, encodeURIComponent escapes it)
Replace(s, pat, by) ==
    LET p == IndexOf(s, pat)
    IN  IF p = 0 THEN s
        ELSE SubSeq(s, 1, p - 1) \o by \o SubSeq(s, p + Len(pat), Len(s))

\* encodeURIComponent of one character: letters, digits and - _ . ! ~ * ' ( )
\* are kept, any other character is percent-encoded
EncodeChar(c) ==
    CASE c = "/" -> <<"%", "2", "F">>
      [] c = ":" -> <<"%", "3", "A">>
      [] c = " " -> <<"%", "2", "0">>
      [] OTHER -> <<c>>

RECURSIVE encodeURIComponent(_)
encodeURIComponent(s) ==
    IF s = << >> THEN << >>
    ELSE EncodeChar(Head(s)) \o encodeURIComponent(Tail(s))

\* the loop of executeRequest over Object.entries(context.params)
RECURSIVE SubstituteParams(_, _)
SubstituteParams(url, entries) ==
    IF entries = << >> THEN url
    ELSE SubstituteParams(
             Replace(url, <<":">> \o KeyChars(Head(entries).key),
                     encodeURIComponent(String(Head(entries).value))),
             Tail(entries))

\* executeRequest(context): the configuration of axiosInstance.request
executeRequest(ctx) ==
    [done |-> TRUE, url |-> SubstituteParams(ctx.url, ctx.params),
     body |-> ctx.body, headers |-> ctx.headers, params |-> ctx.query]

Pending == [status |-> "pending", value |-> NoData, error |-> NoError]

Resolved(v) == [status |-> "resolved", value |-> v, error |-> NoError]

Rejected(e) == [status |-> "rejected", value |-> NoData, error |-> e]

(***************************************************************************)
(* The state the parts of the model start in.  Each specification explores *)
(* one part: the calls of one client, the declarations of the decorators,  *)
(* the default headers under concurrent calls; the other parts stay as     *)
(* they start.                                                             *)
(***************************************************************************)
\* the prototypes decorated: Derived.prototype inherits from Base.prototype
Targets == {"Base", "Derived"}

\* the decorated method names
Methods == {"m"}

ConfigurationError ==
    [cls |-> "ConfigurationError", code |-> "CONFIGURATION_ERROR",
     type |-> "none", id |-> "engine", originalError |-> "none",
     errorType |-> "none"]

\* the decorator applied last: a parameter decorator or an HTTP method
\* decorator, its target and method, the binding of a parameter decorator,
\* and how many decorators have been applied
Decorator(op, t, m, p, count) ==
    [op |-> op, target |-> t, method |-> m, binding |-> p, count |-> count]

NoBinding == Binding(0, "none", Undefined, FALSE)

NoDecorator == Decorator("none", "none", "none", NoBinding, 0)

\* no decorator has been applied: no metadata is stored (0 is no reference)
NoDeclarations ==
    /\ parameterMetadata = [t \in Targets |-> [m \in Methods |-> 0]]
    /\ endpointMetadata = [t \in Targets |-> [m \in Methods |-> 0]]
    /\ arrays = << >>
    /\ objects = << >>
    /\ timers = << >>
    /\ console = << >>
    /\ thrown = NoError
    /\ applied = NoDecorator

\* what bindMethods replaced on the client constructed from `target`: the
\* pairs of a method name and the EndpointMetadata it dispatches by
Bound(t, methods) == [target |-> t, methods |-> methods]

\* the concurrent calls
CallIds == {1, 2}

\* the RequestParams of a call: which caller object each of its bags is
\* (0 before the call is made)
NoParams == [headers |-> 0, query |-> 0, params |-> 0]

\* the context of a concurrent call: the objects its `headers`, `query` and
\* `params` refer to (0 before the context is built) and the position of
\* its hook loop; with it the endpoint and the RequestParams of the call,
\* and the contexts its error hooks were handed.  The array its
\* request-hook loop iterates is this.requestHooks as long as `detached`
\* is FALSE, and the array `kept` once clearHooks() has assigned another
\* array to this.requestHooks.  History: the length of the array when the
\* loop began, the hooks the loop ran, the hooks registered while the loop
\* was suspended, and those of them pushed onto the array of the loop,
\* and the name of the method that was called on the client
ContextOf(at, h, q, p, k) ==
    [pc |-> at, headers |-> h, query |-> q, params |-> p, i |-> k,
     method |-> Undefined,
     endpoint |-> NoEndpoint, passed |-> NoParams, seen |-> << >>,
     detached |-> FALSE, kept |-> << >>, started |-> 0, ran |-> << >>,
     appended |-> << >>, joined |-> << >>]

\* no object is allocated and no concurrent call has built a context
NoCalls ==
    /\ bags = << >>
    /\ calls = [c \in CallIds |-> ContextOf("idle", 0, 0, 0, 1)]

\* every prototype defines every method, and no client is constructed
NoInstance ==
    /\ properties = [t \in Targets |-> Methods \cup {"constructor"}]
    /\ boundMethods = Bound("none", {})
    /\ NoCalls

NoFlight ==
    [pc |-> "idle", own |-> FALSE, held |-> {}, headers |-> EmptyBag,
     outcome |-> "none"]

\* axios.create(config): no default header is set, no call is running
NoFlights ==
    /\ defaultHeaders = EmptyBag
    /\ flights = [c \in CallIds |-> NoFlight]
    /\ mutations = 0

\* no hooks are registered, no call is running
IdleClient ==
    /\ requestHooks = << >>
    /\ responseHooks = << >>
    /\ errorHooks = << >>
    /\ pc = "idle"
    /\ metadata = NoEndpoint
    /\ args = NoArgs
    /\ context = NoContext
    /\ i = 1
    /\ validated = NotValidated
    /\ sent = NotSent
    /\ response = NoResponse
    /\ responseData = NoData
    /\ error = NoError
    /\ processedError = NoError
    /\ injectedArgs = << >>
    /\ result = Pending
    /\ trace = << >>
    /\ reqLog = << >>
    /\ errLog = << >>

(***************************************************************************)
(* The client                                                              *)
(***************************************************************************)
\* new BaseHttpClient(config)
Init ==
    /\ config \in ClientConfigs
    /\ IdleClient
    /\ NoDeclarations
    /\ NoInstance
    /\ NoFlights

\* the client instance: its configuration and its hook lists
client == <<config, requestHooks, responseHooks, errorHooks>>

\* the frame of the call in flight, and its history
frame == <<pc, metadata, args, context, i, validated, sent, response,
           responseData, error, processedError, injectedArgs, result, trace,
           reqLog, errLog>>

\* the objects shared by reference between callers and concurrent calls
shared == <<bags, calls>>

\* the classes as they are defined and the client constructed from one,
\* with the objects its callers hold
instance == <<properties, boundMethods, shared>>

\* the metadata the decorators have stored
registry ==
    <<parameterMetadata, endpointMetadata, arrays, objects, timers, console,
      thrown, applied, instance>>

\* the default headers of the transport and the calls that run concurrently
defaults == <<defaultHeaders, flights, mutations>>

\* the state outside the call in flight
aside == <<registry, defaults>>

\* no call of the client is in flight
Quiescent == pc = "idle"

HookCount == Len(requestHooks) + Len(responseHooks) + Len(errorHooks)

addRequestHook(h) ==
    /\ HookCount < MaxHooks
    /\ requestHooks' = Append(requestHooks, h)
    /\ UNCHANGED <<config, responseHooks, errorHooks, frame, aside>>

addResponseHook(h) ==
    /\ HookCount < MaxHooks
    /\ responseHooks' = Append(responseHooks, h)
    /\ UNCHANGED <<config, requestHooks, errorHooks, frame, aside>>

addErrorHook(h) ==
    /\ HookCount < MaxHooks
    /\ errorHooks' = Append(errorHooks, h)
    /\ UNCHANGED <<config, requestHooks, responseHooks, frame, aside>>

clearHooks ==
    /\ HookCount > 0
    /\ requestHooks' = << >>
    /\ responseHooks' = << >>
    /\ errorHooks' = << >>
    /\ UNCHANGED <<config, frame, aside>>

(***************************************************************************)
(* One call of a decorated method: createHttpMethod                        *)
(***************************************************************************)
\* entering the catch clause with the thrown value e
Catch(e) ==
    /\ error' = e
    /\ processedError' = e
    /\ i' = 1
    /\ pc' = "errorHooks"

\* the method is called: the context is built, the hook loop is entered
Call(m, a) ==
    /\ Quiescent
    /\ metadata' = m
    /\ args' = a
    /\ context' = buildRequestContextFromArgs(m, a)
    /\ i' = 1
    /\ pc' = "requestHooks"
    /\ validated' = NotValidated
    /\ sent' = NotSent
    /\ response' = NoResponse
    /\ responseData' = NoData
    /\ error' = NoError
    /\ processedError' = NoError
    /\ injectedArgs' = CopyOfArgs(a)
    /\ result' = Pending
    /\ trace' = <<"build">>
    /\ reqLog' = << >>
    /\ errLog' = << >>
    /\ UNCHANGED <<client, aside>>


\* the hook loop with each hook inside try/catch: the exception of a hook
\* is dropped and the context it was handed is kept
RequestHook_Swallow ==
    /\ pc = "requestHooks"
    /\ i <= Len(requestHooks)
    /\ trace' = Append(trace, "requestHook")
    /\ reqLog' = Append(reqLog, [hook |-> i, input |-> context])
    /\ context' = ApplyRequestHook(requestHooks[i], context)
    /\ i' = i + 1
    /\ UNCHANGED <<client, aside, pc, metadata, args, validated, sent,
                   response, responseData, error, processedError, result,
                   errLog, injectedArgs>>

\* the hook loop handing every hook the context that was built
RequestHook_Unchained ==
    /\ pc = "requestHooks"
    /\ i <= Len(requestHooks)
    /\ trace' = Append(trace, "requestHook")
    /\ reqLog' = Append(reqLog,
           [hook |-> i, input |-> buildRequestContextFromArgs(metadata, args)])
    /\ IF requestHooks[i] = "throw"
       THEN /\ Catch(RawError("requestHook"))
            /\ UNCHANGED context
       ELSE /\ context' = ApplyRequestHook(requestHooks[i],
                              buildRequestContextFromArgs(metadata, args))
            /\ i' = i + 1
            /\ UNCHANGED <<pc, error, processedError>>
    /\ UNCHANGED <<client, aside, metadata, args, validated, sent, response,
                   responseData, result, errLog, injectedArgs>>

\* context = await hook(context), for the next request hook
RequestHook ==
    /\ pc = "requestHooks"
    /\ i <= Len(requestHooks)
    /\ trace' = Append(trace, "requestHook")
    /\ reqLog' = Append(reqLog, [hook |-> i, input |-> context])
    /\ IF requestHooks[i] = "throw"
       THEN /\ Catch(RawError("requestHook"))
            /\ UNCHANGED context
       ELSE /\ context' = ApplyRequestHook(requestHooks[i], context)
            /\ i' = i + 1
            /\ UNCHANGED <<pc, error, processedError>>
    /\ UNCHANGED <<client, aside, metadata, args, validated, sent, response,
                   responseData, result, errLog, injectedArgs>>

\* validateRequest rethrowing the ZodError of schema.parse as it is
Send_Rethrow ==
    /\ pc = "requestHooks"
    /\ i > Len(requestHooks)
    /\ LET check == context.requestSchema
                      /\ RequestValidationEnabled(config, metadata)
           parsed == check /\ context.body # Undefined
       IN  /\ validated' = IF parsed
                           THEN [done |-> TRUE, body |-> context.body]
                           ELSE validated
           /\ IF check /\ validateRequestThrows(context)
              THEN /\ Catch(RawError("ZodError"))
                   /\ trace' = Append(trace, "validateRequest")
                   /\ UNCHANGED sent
              ELSE /\ pc' = "sending"
                   /\ sent' = executeRequest(context)
                   /\ trace' = trace
                         \o (IF parsed THEN <<"validateRequest">> ELSE << >>)
                         \o <<"transport">>
                   /\ UNCHANGED <<i, error, processedError>>
    /\ UNCHANGED <<client, aside, metadata, args, context, response,
                   responseData, result, reqLog, errLog, injectedArgs>>

\* the dispatching function going by the hook list of the time the client
\* was constructed, which is empty
Send_AsConstructed ==
    /\ pc = "requestHooks"
    /\ LET check == context.requestSchema
                      /\ RequestValidationEnabled(config, metadata)
           parsed == check /\ context.body # Undefined
       IN  /\ validated' = IF parsed
                           THEN [done |-> TRUE, body |-> context.body]
                           ELSE validated
           /\ IF check /\ validateRequestThrows(context)
              THEN /\ Catch(ValidationError("request"))
                   /\ trace' = Append(trace, "validateRequest")
                   /\ UNCHANGED sent
              ELSE /\ pc' = "sending"
                   /\ sent' = executeRequest(context)
                   /\ trace' = trace
                         \o (IF parsed THEN <<"validateRequest">> ELSE << >>)
                         \o <<"transport">>
                   /\ UNCHANGED <<i, error, processedError>>
    /\ UNCHANGED <<client, aside, metadata, args, context, response,
                   responseData, result, reqLog, errLog, injectedArgs>>

\* validateRequest also parsing the body with the schema of the @Request()
\* binding, before the transport is called
Send_BindingSchema ==
    /\ pc = "requestHooks"
    /\ i > Len(requestHooks)
    /\ LET check == context.requestSchema
                      /\ RequestValidationEnabled(config, metadata)
           parsed == check /\ context.body # Undefined
           binding == \E n \in 1..Len(metadata.parameters) :
                         /\ metadata.parameters[n].type = "request"
                         /\ metadata.parameters[n].schema
                         /\ context.body = "bad"
       IN  /\ validated' = IF parsed
                           THEN [done |-> TRUE, body |-> context.body]
                           ELSE validated
           /\ IF (check /\ validateRequestThrows(context)) \/ binding
              THEN /\ Catch(ValidationError("request"))
                   /\ trace' = Append(trace, "validateRequest")
                   /\ UNCHANGED sent
              ELSE /\ pc' = "sending"
                   /\ sent' = executeRequest(context)
                   /\ trace' = trace
                         \o (IF parsed THEN <<"validateRequest">> ELSE << >>)
                         \o <<"transport">>
                   /\ UNCHANGED <<i, error, processedError>>
    /\ UNCHANGED <<client, aside, metadata, args, context, response,
                   responseData, result, reqLog, errLog, injectedArgs>>

\* validateRequest parsing the body the caller passed, not the body of
\* the context the request hooks returned
Send_CallerBody ==
    /\ pc = "requestHooks"
    /\ i > Len(requestHooks)
    /\ LET check == context.requestSchema
                      /\ RequestValidationEnabled(config, metadata)
           passed == buildRequestContextFromArgs(metadata, args)
           parsed == check /\ passed.body # Undefined
       IN  /\ validated' = IF parsed
                           THEN [done |-> TRUE, body |-> passed.body]
                           ELSE validated
           /\ IF check /\ validateRequestThrows(passed)
              THEN /\ Catch(ValidationError("request"))
                   /\ trace' = Append(trace, "validateRequest")
                   /\ UNCHANGED sent
              ELSE /\ pc' = "sending"
                   /\ sent' = executeRequest(context)
                   /\ trace' = trace
                         \o (IF parsed THEN <<"validateRequest">> ELSE << >>)
                         \o <<"transport">>
                   /\ UNCHANGED <<i, error, processedError>>
    /\ UNCHANGED <<client, aside, metadata, args, context, response,
                   responseData, result, reqLog, errLog, injectedArgs>>

\* the request-hook loop is over: validate the request, call the transport
Send ==
    /\ pc = "requestHooks"
    /\ i > Len(requestHooks)
    /\ LET check == context.requestSchema
                      /\ RequestValidationEnabled(config, metadata)
           parsed == check /\ context.body # Undefined
       IN  /\ validated' = IF parsed
                           THEN [done |-> TRUE, body |-> context.body]
                           ELSE validated
           /\ IF check /\ validateRequestThrows(context)
              THEN /\ Catch(ValidationError("request"))
                   /\ trace' = Append(trace, "validateRequest")
                   /\ UNCHANGED sent
              ELSE /\ pc' = "sending"
                   /\ sent' = executeRequest(context)
                   /\ trace' = trace
                         \o (IF parsed THEN <<"validateRequest">> ELSE << >>)
                         \o <<"transport">>
                   /\ UNCHANGED <<i, error, processedError>>
    /\ UNCHANGED <<client, aside, metadata, args, context, response,
                   responseData, result, reqLog, errLog, injectedArgs>>

\* validateResponse called for its exception only, its value dropped
AfterResponse_Discard(data) ==
    LET check == context.responseSchema
                   /\ ResponseValidationEnabled(config, metadata)
        parsed == IF check THEN <<"validateResponse">> ELSE << >>
        valid == data
    IN  IF check /\ validateResponseThrows(data)
        THEN /\ Catch(ValidationError("response"))
             /\ trace' = trace \o parsed
             /\ responseData' = data
        ELSE IF context.mapper = "throws"
        THEN /\ Catch(RawError("mapper"))
             /\ trace' = trace \o parsed \o <<"mapper">>
             /\ responseData' = valid
        ELSE /\ responseData' =
                    IF context.mapper = "fn" THEN mapper(valid) ELSE valid
             /\ trace' = trace \o parsed
                     \o (IF context.mapper = "fn" THEN <<"mapper">> ELSE << >>)
             /\ i' = 1
             /\ pc' = "responseHooks"
             /\ UNCHANGED <<error, processedError>>

\* response.data reached the dispatching function: validate it, map it
AfterResponse(data) ==
    LET check == context.responseSchema
                   /\ ResponseValidationEnabled(config, metadata)
        parsed == IF check THEN <<"validateResponse">> ELSE << >>
        valid == IF check THEN validateResponse(data) ELSE data
    IN  IF check /\ validateResponseThrows(data)
        THEN /\ Catch(ValidationError("response"))
             /\ trace' = trace \o parsed
             /\ responseData' = data
        ELSE IF context.mapper = "throws"
        THEN /\ Catch(RawError("mapper"))
             /\ trace' = trace \o parsed \o <<"mapper">>
             /\ responseData' = valid
        ELSE /\ responseData' =
                    IF context.mapper = "fn" THEN mapper(valid) ELSE valid
             /\ trace' = trace \o parsed
                     \o (IF context.mapper = "fn" THEN <<"mapper">> ELSE << >>)
             /\ i' = 1
             /\ pc' = "responseHooks"
             /\ UNCHANGED <<error, processedError>>

\* the dispatching function issuing the request again after a failure
Transport_Retry(outcome) ==
    /\ pc = "sending"
    /\ IF outcome # "failure"
       THEN /\ response' = [status |-> "fulfilled", data |-> RawData(outcome)]
            /\ AfterResponse(RawData(outcome))
       ELSE IF Count(trace, "transport") < 2
            THEN /\ trace' = Append(trace, "transport")
                 /\ UNCHANGED <<pc, i, error, processedError, response,
                                responseData>>
            ELSE /\ Catch(NetworkError)
                 /\ UNCHANGED <<response, responseData, trace>>
    /\ UNCHANGED <<client, aside, metadata, args, context, validated, sent,
                   result, reqLog, errLog, injectedArgs>>

\* the promise of axiosInstance.request settles, after the response
\* interceptors of setupInterceptors: a failure is rejected as NetworkError
\* unless config.onError returns, and then its value is the response
Transport(outcome) ==
    /\ pc = "sending"
    /\ IF outcome # "failure"
       THEN /\ response' = [status |-> "fulfilled", data |-> RawData(outcome)]
            /\ AfterResponse(RawData(outcome))
       ELSE IF config.onError = "returns"
            THEN /\ response' = [status |-> "recovered", data |-> NoData]
                 /\ AfterResponse(NoData)
            ELSE /\ Catch(NetworkError)
                 /\ UNCHANGED <<response, responseData, trace>>
    /\ UNCHANGED <<client, aside, metadata, args, context, validated, sent,
                   result, reqLog, errLog, injectedArgs>>

\* responseData = await hook(responseData, context), for the next hook
ResponseHook ==
    /\ pc = "responseHooks"
    /\ i <= Len(responseHooks)
    /\ trace' = Append(trace, "responseHook")
    /\ IF responseHooks[i] = "throw"
       THEN /\ Catch(RawError("responseHook"))
            /\ UNCHANGED responseData
       ELSE /\ responseData' = ApplyResponseHook(responseHooks[i], responseData)
            /\ i' = i + 1
            /\ UNCHANGED <<pc, error, processedError>>
    /\ UNCHANGED <<client, aside, metadata, args, context, validated, sent,
                   response, result, reqLog, errLog, injectedArgs>>


\* the values createHttpMethod hands to injectParameterValues
InjectionValues ==
    [response |-> responseData, query |-> context.query,
     headers |-> context.headers, params |-> context.params,
     request |-> context.body]

\* the response-hook loop is over: the values are injected into the
\* arguments (a binding whose schema rejects its value throws a
\* ValidationError tagged `request`) and the original method is called
InjectStep(values, stages) ==
    /\ pc = "responseHooks"
    /\ i > Len(responseHooks)
    /\ LET bad == FirstRejected(metadata, values)
       IN  IF bad > 0
           THEN /\ injectedArgs' = injectParameterValues(
                                       metadata, injectedArgs, values, bad - 1)
                /\ trace' = Append(trace, "inject")
                /\ Catch(ValidationError("request"))
           ELSE /\ injectedArgs' = injectParameterValues(
                                       metadata, injectedArgs, values,
                                       Len(metadata.parameters))
                /\ trace' = trace \o stages
                /\ pc' = "body"
                /\ UNCHANGED <<i, error, processedError>>
    /\ UNCHANGED <<client, aside, metadata, args, context, validated, sent,
                   response, responseData, result, reqLog, errLog>>

\* the original method called before the injection
Inject_BodyFirst == InjectStep(InjectionValues, <<"body", "inject">>)

\* the injection handed response.data instead of responseData
Inject_RawResponse ==
    InjectStep([InjectionValues EXCEPT !.response = response.data],
               <<"inject", "body">>)

\* inject, then call the original method
Inject == InjectStep(InjectionValues, <<"inject", "body">>)

\* the bodies a decorated method may have: one that returns its
\* @Response() argument exists only for a method that has such an argument
MethodBodies(m) ==
    BodyKinds \cup (IF HasResponseSlot(m) THEN {"returnsResponse"} ELSE {})

\* the dispatching function calling this[methodName], that is itself,
\* where it calls the original method
Body_Reenter(b) ==
    /\ pc = "body"
    /\ context' = buildRequestContextFromArgs(metadata, args)
    /\ i' = 1
    /\ pc' = "requestHooks"
    /\ validated' = NotValidated
    /\ sent' = NotSent
    /\ response' = NoResponse
    /\ responseData' = NoData
    /\ injectedArgs' = CopyOfArgs(args)
    /\ trace' = <<"build">>
    /\ reqLog' = << >>
    /\ UNCHANGED <<client, aside, metadata, args, error, processedError,
                   result, errLog>>

\* what a method body that throws throws: a plain Error, or an
\* HttpDecoratorError of its own
BodyException(b) ==
    IF b = "throwsHttpError"
    THEN [HttpDecoratorError("NOT_FOUND", "none") EXCEPT !.id = "body"]
    ELSE RawError("body")

\* the dispatching function returning the promise of the original method
\* without awaiting it: its rejection passes the catch clause by
Body_NotAwaited(b) ==
    /\ pc = "body"
    /\ IF b \in {"throws", "throwsHttpError"}
       THEN /\ pc' = "Failed"
            /\ error' = BodyException(b)
            /\ result' = Rejected(BodyException(b))
            /\ UNCHANGED <<i, processedError>>
       ELSE /\ pc' = "Completed"
            /\ result' = Resolved(originalMethod(b, metadata, injectedArgs))
            /\ UNCHANGED <<i, error, processedError>>
    /\ UNCHANGED <<client, aside, metadata, args, context, validated, sent,
                   response, responseData, trace, reqLog, errLog,
                   injectedArgs>>

\* the promise of the original method settles
Body(b) ==
    /\ pc = "body"
    /\ IF b \in {"throws", "throwsHttpError"}
       THEN /\ Catch(BodyException(b))
            /\ UNCHANGED result
       ELSE /\ pc' = "Completed"
            /\ result' = Resolved(originalMethod(b, metadata, injectedArgs))
            /\ UNCHANGED <<i, error, processedError>>
    /\ UNCHANGED <<client, aside, metadata, args, context, validated, sent,
                   response, responseData, trace, reqLog, errLog,
                   injectedArgs>>


\* the error-hook loop without its try/catch: the exception of a hook
\* leaves the catch clause
ErrorHook_NoTry ==
    /\ pc = "errorHooks"
    /\ i <= Len(errorHooks)
    /\ trace' = Append(trace, "errorHook")
    /\ errLog' = Append(errLog, [hook |-> i, input |-> processedError])
    /\ IF errorHooks[i] = "throw"
       THEN /\ pc' = "Failed"
            /\ result' = Rejected(RawError("errorHook"))
            /\ UNCHANGED <<i, processedError>>
       ELSE /\ processedError' = ApplyErrorHook(errorHooks[i], processedError)
            /\ i' = i + 1
            /\ UNCHANGED <<pc, result>>
    /\ UNCHANGED <<client, aside, metadata, args, context, validated, sent,
                   response, responseData, error, reqLog, injectedArgs>>

\* processedError = await hook(processedError, ...) inside try/catch
ErrorHook ==
    /\ pc = "errorHooks"
    /\ i <= Len(errorHooks)
    /\ trace' = Append(trace, "errorHook")
    /\ errLog' = Append(errLog, [hook |-> i, input |-> processedError])
    /\ processedError' =
           IF errorHooks[i] = "throw"
           THEN processedError
           ELSE ApplyErrorHook(errorHooks[i], processedError)
    /\ i' = i + 1
    /\ UNCHANGED <<client, aside, pc, metadata, args, context, validated,
                   sent, response, responseData, error, result, reqLog,
                   injectedArgs>>


\* the catch clause returning what the error hooks made of the error
\* instead of throwing
Throw_Returns ==
    /\ pc = "errorHooks"
    /\ i > Len(errorHooks)
    /\ IF processedError # error
       THEN /\ pc' = "Completed"
            /\ result' = Resolved(NoData)
       ELSE /\ pc' = "Failed"
            /\ result' = Rejected(Classify(metadata, error))
    /\ UNCHANGED <<client, aside, metadata, args, context, i, validated, sent,
                   response, responseData, error, processedError, trace,
                   reqLog, errLog, injectedArgs>>

\* the error-hook loop is over: the catch clause throws to the caller
Throw ==
    /\ pc = "errorHooks"
    /\ i > Len(errorHooks)
    /\ pc' = "Failed"
    /\ result' = Rejected(Classify(metadata, error))
    /\ UNCHANGED <<client, aside, metadata, args, context, i, validated, sent,
                   response, responseData, error, processedError, trace,
                   reqLog, errLog, injectedArgs>>

\* the caller has observed the settled promise: the frame of the call
\* is released
Release ==
    /\ pc \in {"Completed", "Failed"}
    /\ pc' = "idle"
    /\ metadata' = NoEndpoint
    /\ args' = NoArgs
    /\ context' = NoContext
    /\ i' = 1
    /\ validated' = NotValidated
    /\ sent' = NotSent
    /\ response' = NoResponse
    /\ responseData' = NoData
    /\ error' = NoError
    /\ processedError' = NoError
    /\ injectedArgs' = << >>
    /\ result' = Pending
    /\ trace' = << >>
    /\ reqLog' = << >>
    /\ errLog' = << >>
    /\ UNCHANGED <<client, aside>>

\* a body the requestSchema rejects, or a payload the responseSchema
\* rejects or changes, is told from the others only by an endpoint that
\* has the schema
CallInputs(m) == {a \in CallArgs : a[1].body = "bad" => m.requestSchema}

TransportInputs ==
    {o \in TransportOutcomes :
        o \in {"userExtra", "garbage"} => context.responseSchema}

Next ==
    \/ \E h \in RequestHookKinds : Quiescent /\ addRequestHook(h)
    \/ \E h \in ResponseHookKinds : Quiescent /\ addResponseHook(h)
    \/ \E h \in ErrorHookKinds : Quiescent /\ addErrorHook(h)
    \/ Quiescent /\ clearHooks
    \/ \E m \in Endpoints : \E a \in CallInputs(m) : Call(m, a)
    \/ RequestHook
    \/ Send
    \/ \E o \in TransportInputs : Transport(o)
    \/ ResponseHook
    \/ Inject
    \/ \E b \in MethodBodies(metadata) : Body(b)
    \/ ErrorHook
    \/ Throw
    \/ Release

Spec == Init /\ [][Next]_vars

(***************************************************************************)
(* Calls of methods with parameter bindings                                *)
(***************************************************************************)
\* the bindings of the methods explored: one @Response() argument, one
\* with a schema of its own, two of them, one after a @Request() argument
ParameterLists ==
    {<<Binding(1, "response", Undefined, FALSE)>>,
     <<Binding(1, "response", Undefined, TRUE)>>,
     <<Binding(1, "response", Undefined, FALSE),
       Binding(2, "response", Undefined, FALSE)>>,
     <<Binding(1, "request", Undefined, FALSE),
       Binding(2, "response", Undefined, FALSE)>>}

\* endpoints whose methods take the response as an argument
InjectionEndpoints ==
    {[m EXCEPT !.parameters = ps] :
        m \in {e \in Endpoints :
                  ~e.requestSchema /\ ~e.errorType /\ e.mapper # "throws"},
        ps \in ParameterLists}

NextInjection ==
    \/ \E h \in ResponseHookKinds : Quiescent /\ addResponseHook(h)
    \/ Quiescent /\ clearHooks
    \/ \E m \in InjectionEndpoints : \E a \in CallInputs(m) : Call(m, a)
    \/ Send
    \/ \E o \in TransportInputs : Transport(o)
    \/ ResponseHook
    \/ Inject
    \/ \E b \in MethodBodies(metadata) : Body(b)
    \/ Throw
    \/ Release

SpecInjection == Init /\ [][NextInjection]_vars

(***************************************************************************)
(* Declarations: the decorators and MetadataManager                        *)
(***************************************************************************)
\* Reflect.getMetadata(key, target, propertyKey): the own metadata of the
\* target, else the metadata of the prototype it inherits from
getMetadata(store, t, m) ==
    IF store[t][m] # 0 THEN store[t][m]
    ELSE IF t = "Derived" THEN store["Base"][m] ELSE 0

\* getParameterMetadata(target, propertyKey): the array stored, `[]` if none
getParameterMetadata(t, m) ==
    IF getMetadata(parameterMetadata, t, m) = 0
    THEN << >>
    ELSE arrays[getMetadata(parameterMetadata, t, m)]

\* the bindings the parameter decorators explored register
Bindings ==
    {Binding(k, type, Undefined, FALSE) :
        k \in 1..2, type \in {"response", "query"}}

\* the configurations the HTTP method decorators explored are given
DeclaredConfigs == [responseSchema : BOOLEAN, mapper : BOOLEAN, query : {FALSE}]

\* p.index === parameterMetadata.index && p.type === parameterMetadata.type
Duplicate(existing, p) ==
    \E n \in 1..Len(existing) :
        existing[n].index = p.index /\ existing[n].type = p.type

\* the duplicate check comparing the index only
addParameterMetadata_IndexOnly(t, m, p) ==
    LET ref == getMetadata(parameterMetadata, t, m)
        arr == IF ref = 0 THEN Len(arrays) + 1 ELSE ref
        obj == getMetadata(endpointMetadata, t, m)
    IN  /\ applied' = Decorator("parameter", t, m, p, applied.count + 1)
        /\ IF \E n \in 1..Len(getParameterMetadata(t, m)) :
                 getParameterMetadata(t, m)[n].index = p.index
           THEN /\ thrown' = ConfigurationError
                /\ UNCHANGED <<parameterMetadata, endpointMetadata, arrays,
                               objects>>
           ELSE /\ thrown' = NoError
                /\ arrays' = IF ref = 0
                             THEN Append(arrays, <<p>>)
                             ELSE [arrays EXCEPT ![ref] = Append(@, p)]
                /\ parameterMetadata' =
                       [parameterMetadata EXCEPT ![t][m] = arr]
                /\ IF obj # 0
                   THEN /\ objects' = [objects EXCEPT ![obj].parameters = arr]
                        /\ endpointMetadata' =
                               [endpointMetadata EXCEPT ![t][m] = obj]
                   ELSE UNCHANGED <<objects, endpointMetadata>>
        /\ UNCHANGED <<timers, console, client, frame, defaults, instance>>

\* a parameter decorator is applied: MetadataManager.addParameterMetadata.
\* The array found is pushed onto and stored as own metadata of the
\* target; the endpoint metadata found, if any, is made to refer to it and
\* stored as own metadata of the target
addParameterMetadata(t, m, p) ==
    LET ref == getMetadata(parameterMetadata, t, m)
        arr == IF ref = 0 THEN Len(arrays) + 1 ELSE ref
        obj == getMetadata(endpointMetadata, t, m)
    IN  /\ applied' = Decorator("parameter", t, m, p, applied.count + 1)
        /\ IF Duplicate(getParameterMetadata(t, m), p)
           THEN /\ thrown' = ConfigurationError
                /\ UNCHANGED <<parameterMetadata, endpointMetadata, arrays,
                               objects>>
           ELSE /\ thrown' = NoError
                /\ arrays' = IF ref = 0
                             THEN Append(arrays, <<p>>)
                             ELSE [arrays EXCEPT ![ref] = Append(@, p)]
                /\ parameterMetadata' =
                       [parameterMetadata EXCEPT ![t][m] = arr]
                /\ IF obj # 0
                   THEN /\ objects' = [objects EXCEPT ![obj].parameters = arr]
                        /\ endpointMetadata' =
                               [endpointMetadata EXCEPT ![t][m] = obj]
                   ELSE UNCHANGED <<objects, endpointMetadata>>
        /\ UNCHANGED <<timers, console, client, frame, defaults, instance>>

\* an HTTP method decorator is applied: a new EndpointMetadata holding the
\* configuration and the parameter array found (a new `[]` if none) is
\* stored by setEndpointMetadata, and the validation of the method is
\* handed to setTimeout
createHttpDecorator(t, m, cfg) ==
    LET ref == getMetadata(parameterMetadata, t, m)
        arr == IF ref = 0 THEN Len(arrays) + 1 ELSE ref
    IN  /\ applied' = Decorator("endpoint", t, m, NoBinding, applied.count + 1)
        /\ arrays' = IF ref = 0 THEN Append(arrays, << >>) ELSE arrays
        /\ objects' = Append(objects,
               [responseSchema |-> cfg.responseSchema, mapper |-> cfg.mapper,
                query |-> cfg.query, parameters |-> arr])
        /\ endpointMetadata' =
               [endpointMetadata EXCEPT ![t][m] = Len(objects) + 1]
        /\ timers' = Append(timers, <<t, m>>)
        /\ thrown' = NoError
        /\ UNCHANGED <<parameterMetadata, console, client, frame, defaults,
                     instance>>

\* validateMethodConfiguration throws for the EndpointMetadata md
validateMethodConfigurationThrows(md) ==
    /\ \E n \in 1..Len(arrays[md.parameters]) :
          arrays[md.parameters][n].type = "response"
    /\ ~md.responseSchema
    /\ ~md.mapper

\* what validateMethodConfiguration hands to console.warn
Warnings(t, m, md) ==
    IF /\ \E n \in 1..Len(arrays[md.parameters]) :
             arrays[md.parameters][n].type = "query"
       /\ ~md.query
    THEN <<[level |-> "warn", code |-> "query", target |-> t, method |-> m]>>
    ELSE << >>

\* the callback without its try/catch
Timeout_Uncaught ==
    /\ timers # << >>
    /\ timers' = Tail(timers)
    /\ LET t == Head(timers)[1]
           m == Head(timers)[2]
           md == objects[getMetadata(endpointMetadata, t, m)]
       IN  IF validateMethodConfigurationThrows(md)
           THEN thrown' = ConfigurationError /\ UNCHANGED console
           ELSE console' = console \o Warnings(t, m, md) /\ UNCHANGED thrown
    /\ UNCHANGED <<parameterMetadata, endpointMetadata, arrays, objects,
                   applied, client, frame, defaults, instance>>

\* the callback handed to setTimeout runs: validateMethodConfiguration
\* inside try/catch, what it throws goes to console.error
Timeout ==
    /\ timers # << >>
    /\ timers' = Tail(timers)
    /\ LET t == Head(timers)[1]
           m == Head(timers)[2]
           md == objects[getMetadata(endpointMetadata, t, m)]
       IN  console' =
              IF validateMethodConfigurationThrows(md)
              THEN Append(console,
                       [level |-> "error", code |-> ConfigurationError.code,
                        target |-> t, method |-> m])
              ELSE console \o Warnings(t, m, md)
    /\ UNCHANGED <<parameterMetadata, endpointMetadata, arrays, objects,
                   thrown, applied, client, frame, defaults, instance>>

\* the class definitions explored apply a bounded number of decorators
Declaring == applied.count < MaxDecorations

NextDeclaration ==
    \/ \E t \in Targets, m \in Methods, p \in Bindings :
          Declaring /\ addParameterMetadata(t, m, p)
    \/ \E t \in Targets, m \in Methods, cfg \in DeclaredConfigs :
          Declaring /\ createHttpDecorator(t, m, cfg)
    \/ Timeout

\* a client built with the defaults of the constructor
DefaultConfig ==
    [validateRequest |-> "true", validateResponse |-> "true",
     onError |-> "none"]

InitDeclaration ==
    /\ config = DefaultConfig
    /\ IdleClient
    /\ NoDeclarations
    /\ NoInstance
    /\ NoFlights

SpecDeclaration == InitDeclaration /\ [][NextDeclaration]_vars

(***************************************************************************)
(* The constructor of the client: bindMethods                              *)
(***************************************************************************)
\* the class definitions explored: each prototype defines each method
\* itself or leaves it to the prototype it inherits from
ClassShapes ==
    [Targets -> {names \cup {"constructor"} : names \in SUBSET Methods}]

\* MetadataManager.getAllEndpointsMetadata(target): for every own property
\* name of the prototype but `constructor`, the endpoint metadata that
\* getEndpointMetadata finds for it, if any
getAllEndpointsMetadata(t) ==
    {<<propertyName, getMetadata(endpointMetadata, t, propertyName)>> :
        propertyName \in
            {name \in properties[t] :
                /\ name # "constructor"
                /\ getMetadata(endpointMetadata, t, name) # 0}}

\* `new t(config)`: bindMethods has createHttpMethod replace every method
\* getAllEndpointsMetadata(this.constructor) returns
bindMethods(t) ==
    /\ boundMethods' = Bound(t, getAllEndpointsMetadata(t))
    /\ UNCHANGED <<properties, parameterMetadata, endpointMetadata, arrays,
                   objects, timers, console, thrown, applied, client, frame,
                   defaults, shared>>

\* the method names bindMethods has replaced on the client
BoundNames == {pair[1] : pair \in boundMethods.methods}

\* the property `name` of the client is a function: an own property that
\* bindMethods assigned, or a method of the prototype chain of its class
Callable(name) ==
    /\ boundMethods.target # "none"
    /\ \/ name \in BoundNames
       \/ name \in properties[boundMethods.target]
       \/ boundMethods.target = "Derived" /\ name \in properties["Base"]

\* client[name](...) as call c: the function createHttpMethod assigned to
\* the instance enters the pipeline; without one the property is found on
\* the prototype chain and the method body runs as it was written
InvokeMethod(c, name) ==
    /\ Callable(name)
    /\ calls[c].pc = "idle"
    /\ calls' = [calls EXCEPT
           ![c].method = name,
           ![c].pc = IF name \in BoundNames THEN "requestHooks"
                     ELSE "rawBody"]
    /\ UNCHANGED <<properties, boundMethods, bags, parameterMetadata,
                   endpointMetadata, arrays, objects, timers, console, thrown,
                   applied, client, frame, defaults>>

\* decorators are applied to the members a class body defines
NextBinding ==
    \/ \E t \in Targets, m \in Methods, p \in Bindings :
          Declaring /\ m \in properties[t] /\ addParameterMetadata(t, m, p)
    \/ \E t \in Targets, m \in Methods, cfg \in DeclaredConfigs :
          Declaring /\ m \in properties[t] /\ createHttpDecorator(t, m, cfg)
    \/ Timeout
    \/ \E t \in Targets : bindMethods(t)
    \/ \E name \in Methods : InvokeMethod(1, name)

InitBinding ==
    /\ config = DefaultConfig
    /\ IdleClient
    /\ NoDeclarations
    /\ NoFlights
    /\ properties \in ClassShapes
    /\ boundMethods = Bound("none", {})
    /\ NoCalls

SpecBinding == InitBinding /\ [][NextBinding]_vars

(***************************************************************************)
(* Calls in the bag-of-roles convention: policies and URL templates        *)
(***************************************************************************)
\* the allow-policies explored: none (absent or false), all, a named subset
Policies ==
    {Policy("absent", {}, {}), Policy("false", {}, {}),
     Policy("true", {}, {}), Policy("object", {"id"}, {}),
     Policy("object", {"i"}, {}), Policy("object", {"id", "i"}, {"X"}),
     Policy("object", {}, {"id", "constructor"})}

\* the URL templates explored: /u, /u/:id, /:id/:id, /:id/of/:i
Templates ==
    {<<"/", "u">>,
     <<"/", "u", "/", ":", "i", "d">>,
     <<"/", ":", "i", "d", "/", ":", "i", "d">>,
     <<"/", ":", "i", "d", "/", "o", "f", "/", ":", "i">>}

\* the bags a caller passes as headers, query or params
CallerBags ==
    {EmptyBag,
     <<Entry("id", Str(<<"4", "2">>))>>,
     <<Entry("id", Str(<<"a", "/", "b">>)), Entry("X", Num(10))>>,
     <<Entry("i", Num(7)), Entry("id", Num(42))>>,
     <<Entry("constructor", Str(<<"x">>)), Entry("id", Str(<<"7">>))>>}

\* endpoints declared with policies, called with a bag of roles
PolicyEndpoints ==
    LET rest == {Policy("true", {}, {}), Policy("object", {"id"}, {})}
        triples == UNION {{<<p, q, q>>, <<q, p, q>>, <<q, q, p>>} :
                             p \in Policies, q \in rest}
    IN  {[NoEndpoint EXCEPT !.url = u, !.headers = t[1], !.query = t[2],
                            !.params = t[3]] :
            u \in Templates, t \in triples}

\* the calls explored: one bag goes to two of the roles, another to the third
PolicyArgs ==
    {<<Argument(TRUE, "good", h, q, q)>> : h \in CallerBags, q \in CallerBags}
        \cup {<<Argument(TRUE, "good", h, h, x)>> :
                 h \in CallerBags, x \in CallerBags}

NextContext ==
    \/ \E m \in PolicyEndpoints : \E a \in PolicyArgs : Call(m, a)
    \/ Send
    \/ Transport("user")
    \/ Inject
    \/ Body("returns")
    \/ Release

SpecContext == InitDeclaration /\ [][NextContext]_vars

(***************************************************************************)
(* Default headers under concurrent calls                                  *)
(***************************************************************************)
\* the header names and values given to setDefaultHeader
DefaultHeaderKeys == {"X"}

DefaultHeaderValues == {Str(<<"1">>), Str(<<"2">>)}

\* the headers a call passes of its own, under a policy that allows them
OwnHeaders(f) ==
    IF f.own THEN <<Entry("X", Str(<<"0">>))>> ELSE EmptyBag

\* delete bag[key]
DeleteKey(bag, k) == SelectSeq(bag, LAMBDA e : e.key # k)

\* the headers of a request: the default headers of the instance with the
\* headers of the request configuration laid over them
RECURSIVE MergeHeaders(_, _)
MergeHeaders(common, headers) ==
    IF headers = << >> THEN common
    ELSE MergeHeaders(SetKey(common, Head(headers).key, Head(headers).value),
                      Tail(headers))

\* the calls that were invoked and have not handed their request to the
\* transport see one more value of the default headers
Observe(fs, common) ==
    [c \in CallIds |->
        IF fs[c].pc = "awaiting"
        THEN [fs[c] EXCEPT !.held = @ \cup {common}]
        ELSE fs[c]]

\* setDefaultHeader writing through to the requests already handed over
setDefaultHeader_Shared(k, v) ==
    /\ mutations < MaxMutations
    /\ defaultHeaders' = SetKey(defaultHeaders, k, v)
    /\ mutations' = mutations + 1
    /\ flights' =
          [c \in CallIds |->
              IF flights[c].pc = "inflight"
              THEN [flights[c] EXCEPT !.headers = SetKey(@, k, v)]
              ELSE Observe(flights, defaultHeaders')[c]]
    /\ UNCHANGED <<client, frame, registry>>

\* axiosInstance.defaults.headers.common[key] = value, one synchronous
\* assignment
setDefaultHeader(k, v) ==
    /\ mutations < MaxMutations
    /\ defaultHeaders' = SetKey(defaultHeaders, k, v)
    /\ mutations' = mutations + 1
    /\ flights' = Observe(flights, defaultHeaders')
    /\ UNCHANGED <<client, frame, registry>>

\* delete axiosInstance.defaults.headers.common[key]
removeDefaultHeader(k) ==
    /\ mutations < MaxMutations
    /\ defaultHeaders' = DeleteKey(defaultHeaders, k)
    /\ mutations' = mutations + 1
    /\ flights' = Observe(flights, defaultHeaders')
    /\ UNCHANGED <<client, frame, registry>>

\* a method of the client is called: its pipeline runs up to executeRequest
Invoke(c, own) ==
    /\ flights[c].pc = "idle"
    /\ flights' = [flights EXCEPT ![c] =
                      [NoFlight EXCEPT !.pc = "awaiting", !.own = own,
                                       !.held = {defaultHeaders}]]
    /\ UNCHANGED <<client, frame, registry, defaultHeaders, mutations>>

\* executeRequest: axiosInstance.request(config) lays config.headers over
\* the default headers of that moment and issues the request
Dispatch(c) ==
    /\ flights[c].pc = "awaiting"
    /\ flights' = [flights EXCEPT ![c] =
                      [@ EXCEPT !.pc = "inflight",
                                !.headers =
                                    MergeHeaders(defaultHeaders,
                                                 OwnHeaders(flights[c]))]]
    /\ UNCHANGED <<client, frame, registry, defaultHeaders, mutations>>

\* the request of the call settles
Settle(c, outcome) ==
    /\ flights[c].pc = "inflight"
    /\ flights' = [flights EXCEPT ![c] =
                      [@ EXCEPT !.pc = "settled", !.outcome = outcome]]
    /\ UNCHANGED <<client, frame, registry, defaultHeaders, mutations>>

\* the caller has observed the settled promise
Return(c) ==
    /\ flights[c].pc = "settled"
    /\ flights' = [flights EXCEPT ![c] = NoFlight]
    /\ UNCHANGED <<client, frame, registry, defaultHeaders, mutations>>

NextDefaults ==
    \/ \E k \in DefaultHeaderKeys : \E v \in DefaultHeaderValues :
           setDefaultHeader(k, v)
    \/ \E k \in DefaultHeaderKeys : removeDefaultHeader(k)
    \/ \E c \in CallIds : \E own \in BOOLEAN : Invoke(c, own)
    \/ \E c \in CallIds : Dispatch(c)
    \/ \E c \in CallIds : \E o \in {"fulfilled", "failure"} : Settle(c, o)
    \/ \E c \in CallIds : Return(c)

SpecDefaults == InitDeclaration /\ [][NextDefaults]_vars

(***************************************************************************)
(* Calls under request hooks that return another context                   *)
(***************************************************************************)
\* endpoints that declare a requestSchema and nothing else
SchemaEndpoints ==
    {m \in Endpoints :
        m.requestSchema /\ ~m.responseSchema /\ ~m.errorType
            /\ m.mapper = "none"}

NextHooks ==
    \/ \E h \in RequestHookKinds \cup FreshContextHooks :
           Quiescent /\ addRequestHook(h)
    \/ Quiescent /\ clearHooks
    \/ \E m \in SchemaEndpoints : \E a \in CallArgs : Call(m, a)
    \/ RequestHook
    \/ Send
    \/ Transport("user")
    \/ Inject
    \/ Body("returns")
    \/ Throw
    \/ Release

SpecHooks == Init /\ [][NextHooks]_vars

(***************************************************************************)
(* Calls of methods whose arguments have roles                             *)
(***************************************************************************)
\* the bindings of the methods explored, in the order the decorators push
\* them (last argument first); `(k)` is the 0-based index of the source
RoleLists ==
    {<< >>,
     <<Binding(1, "request", Undefined, TRUE)>>,
     <<Binding(2, "response", Undefined, FALSE),
       Binding(1, "request", Undefined, FALSE)>>,
     <<Binding(3, "response", Undefined, FALSE),
       Binding(2, "headers", Undefined, FALSE),
       Binding(1, "params", Undefined, FALSE)>>,
     <<Binding(2, "query", "id", TRUE),
       Binding(1, "query", Undefined, TRUE)>>,
     <<Binding(2, "params", "id", FALSE)>>,
     <<Binding(3, "response", Undefined, FALSE)>>,
     <<Binding(1, "response", Undefined, TRUE)>>,
     <<Binding(1, "query", Undefined, FALSE),
       Binding(1, "response", Undefined, FALSE)>>}

\* GET /u/:id letting every header, query parameter and path parameter in
RoleEndpoints ==
    {[NoEndpoint EXCEPT !.url = <<"/", "u", "/", ":", "i", "d">>,
                        !.headers = Policy("true", {}, {}),
                        !.query = Policy("true", {}, {}),
                        !.params = Policy("true", {}, {}),
                        !.parameters = ps] : ps \in RoleLists}

\* the values passed as arguments: nothing, a body, an object holding an
\* id, a RequestParams bag
RoleArguments ==
    {Argument(FALSE, Undefined, EmptyBag, EmptyBag, EmptyBag),
     Argument(FALSE, "good", EmptyBag, EmptyBag, EmptyBag),
     Argument(FALSE, "bad", EmptyBag, EmptyBag, EmptyBag),
     ObjectArgument("good", <<Entry("id", Str(<<"4", "2">>))>>),
     Argument(TRUE, "good", <<Entry("X", Num(1))>>,
              <<Entry("id", Num(7))>>, <<Entry("id", Str(<<"4", "2">>))>>),
     Argument(TRUE, Undefined, EmptyBag,
              <<Entry("id", Str(<<"7">>)), Entry("i", Str(<<"1">>))>>,
              EmptyBag)}

\* the most arguments a call is made with
MaxArgs == 3

\* the argument lists explored: any of the values in the first two places,
\* where the bindings with an input role are declared, plain values after
RoleArgs ==
    {a \in UNION {[1..n -> RoleArguments] : n \in 0..MaxArgs} :
        \A k \in 3..Len(a) : ~a[k].bag /\ a[k].entries = EmptyBag}

NextRoles ==
    \/ \E m \in RoleEndpoints : \E a \in RoleArgs : Call(m, a)
    \/ Send
    \/ \E o \in {"user", "userExtra"} : Transport(o)
    \/ Inject
    \/ \E b \in MethodBodies(metadata) \ {"throws"} : Body(b)
    \/ Throw
    \/ Release

SpecRoles == InitDeclaration /\ [][NextRoles]_vars

(***************************************************************************)
(* One call from its start to its settlement                               *)
(***************************************************************************)
\* the hooks are registered, the method is called once, and the steps of
\* the dispatching function follow until its promise settles
NextLive ==
    \/ \E h \in RequestHookKinds : Quiescent /\ addRequestHook(h)
    \/ \E h \in ResponseHookKinds : Quiescent /\ addResponseHook(h)
    \/ \E h \in ErrorHookKinds : Quiescent /\ addErrorHook(h)
    \/ \E m \in Endpoints : \E a \in CallInputs(m) : Call(m, a)
    \/ RequestHook
    \/ Send
    \/ \E o \in TransportInputs : Transport(o)
    \/ ResponseHook
    \/ Inject
    \/ \E b \in MethodBodies(metadata) : Body(b)
    \/ ErrorHook
    \/ Throw

\* every promise the dispatching function awaits settles, and the
\* continuation of a settled promise is run
Settles ==
    /\ WF_vars(RequestHook)
    /\ WF_vars(Send)
    /\ WF_vars(\E o \in TransportInputs : Transport(o))
    /\ WF_vars(ResponseHook)
    /\ WF_vars(Inject)
    /\ WF_vars(\E b \in MethodBodies(metadata) : Body(b))
    /\ WF_vars(ErrorHook)
    /\ WF_vars(Throw)

\* the clients explored: the validation defaults of the constructor, with
\* and without a config.onError
InitLive ==
    /\ config \in {[DefaultConfig EXCEPT !.onError = k] : k \in OnErrorKinds}
    /\ IdleClient
    /\ NoDeclarations
    /\ NoInstance
    /\ NoFlights

SpecLive == InitLive /\ [][NextLive]_vars /\ Settles

(***************************************************************************)
(* Calls whose method body throws                                          *)
(***************************************************************************)
\* the endpoints called: nothing is validated or mapped, an error class is
\* declared or not
BodyEndpoints ==
    {m \in Endpoints :
        ~m.requestSchema /\ ~m.responseSchema /\ m.mapper = "none"}

NextBody ==
    \/ \E h \in ErrorHookKinds : Quiescent /\ addErrorHook(h)
    \/ Quiescent /\ clearHooks
    \/ \E m \in BodyEndpoints : \E a \in CallInputs(m) : Call(m, a)
    \/ Send
    \/ Transport("user")
    \/ Inject
    \/ \E b \in BodyKinds \cup {"throwsHttpError"} : Body(b)
    \/ ErrorHook
    \/ Throw
    \/ Release

SpecBody == Init /\ [][NextBody]_vars

(***************************************************************************)
(* Concurrent calls and the objects their callers pass                     *)
(***************************************************************************)
\* the request hooks explored here assign to a property of context.headers,
\* context.query or context.params and return the context they were handed
AssigningHooks == {"addX", "setQuery", "setParam"}

\* the bag of the context such a hook assigns to
AssignedRole(h) ==
    IF h = "addX" THEN "headers"
    ELSE IF h = "setQuery" THEN "query" ELSE "params"

\* the objects the calling code holds and passes as bags
CallerObjects ==
    <<<<Entry("id", Str(<<"4", "2">>))>>,
      <<Entry("id", Str(<<"7">>)), Entry("i", Str(<<"1">>))>>>>

\* the endpoints called: one policy for the three roles
SharedEndpoints ==
    {[NoEndpoint EXCEPT !.headers = p, !.query = p, !.params = p] :
        p \in {Policy("true", {}, {}), Policy("object", {"id"}, {}),
               NoPolicy}}

\* the RequestParams objects passed: which caller object each role is
SharedParams ==
    {[headers |-> r, query |-> r, params |-> q] :
        r \in 1..Len(CallerObjects), q \in 1..Len(CallerObjects)}

\* what the steps of the concurrent calls leave alone
Elsewhere ==
    <<client, frame, defaults, parameterMetadata, endpointMetadata, arrays,
      objects, timers, console, thrown, applied, properties, boundMethods>>

\* call c is made with the RequestParams rp: buildRequestContextFromParams.
\* processHeaders always returns a new object; processQuery and
\* processParams return the object they were given when the policy is
\* `true`, a new object otherwise
BuildContext(c, m, rp) ==
    LET newQuery == m.query.kind # "true"
        newParams == m.params.kind # "true"
        allocated ==
            <<processHeaders(TRUE, bags[rp.headers], m.headers)>>
              \o (IF newQuery
                  THEN <<processQuery(TRUE, bags[rp.query], m.query)>>
                  ELSE << >>)
              \o (IF newParams
                  THEN <<processParams(TRUE, bags[rp.params], m.params)>>
                  ELSE << >>)
    IN  /\ calls[c].pc = "idle"
        /\ bags' = bags \o allocated
        /\ calls' = [calls EXCEPT ![c] =
               [ContextOf("requestHooks", Len(bags) + 1,
                          IF newQuery THEN Len(bags) + 2 ELSE rp.query,
                          IF newParams THEN Len(bags) + Len(allocated)
                          ELSE rp.params,
                          1)
                EXCEPT !.endpoint = m, !.passed = rp,
                       !.started = Len(requestHooks)]]
        /\ UNCHANGED Elsewhere

\* the array `for (const hook of this.requestHooks)` of call c iterates:
\* the one this.requestHooks referred to when the loop began
Iterated(c) == IF calls[c].detached THEN calls[c].kept ELSE requestHooks

\* the request-hook loop of call c taking the array this.requestHooks
\* refers to at each step
RunRequestHook_Reread(c) ==
    /\ calls[c].pc = "requestHooks"
    /\ calls[c].i <= Len(requestHooks)
    /\ bags' = [bags EXCEPT
           ![calls[c][AssignedRole(requestHooks[calls[c].i])]] =
               SetKey(@, "X", Str(<<"1">>))]
    /\ calls' = [calls EXCEPT
           ![c].i = @ + 1,
           ![c].ran = Append(@, requestHooks[calls[c].i])]
    /\ UNCHANGED Elsewhere

\* the next request hook of call c runs: it assigns key X of the bag its
\* context refers to
RunRequestHook(c) ==
    /\ calls[c].pc = "requestHooks"
    /\ calls[c].i <= Len(Iterated(c))
    /\ bags' = [bags EXCEPT
           ![calls[c][AssignedRole(Iterated(c)[calls[c].i])]] =
               SetKey(@, "X", Str(<<"1">>))]
    /\ calls' = [calls EXCEPT
           ![c].i = @ + 1,
           ![c].ran = Append(@, Iterated(c)[calls[c].i])]
    /\ UNCHANGED Elsewhere

\* the request-hook loop of call c is over: the request is handed to the
\* transport
HandOver(c) ==
    /\ calls[c].pc = "requestHooks"
    /\ calls[c].i > Len(Iterated(c))
    /\ calls' = [calls EXCEPT ![c].pc = "sending"]
    /\ UNCHANGED <<bags, Elsewhere>>

\* no concurrent call has been made
NoneCalled == \A c \in CallIds : calls[c].pc = "idle"

NextShared ==
    \/ \E h \in AssigningHooks : NoneCalled /\ addRequestHook(h)
    \/ \E c \in CallIds, m \in SharedEndpoints, rp \in SharedParams :
          BuildContext(c, m, rp)
    \/ \E c \in CallIds : RunRequestHook(c)
    \/ \E c \in CallIds : HandOver(c)

InitShared ==
    /\ config = DefaultConfig
    /\ IdleClient
    /\ NoDeclarations
    /\ NoFlights
    /\ properties = [t \in Targets |-> Methods \cup {"constructor"}]
    /\ boundMethods = Bound("none", {})
    /\ bags = CallerObjects
    /\ calls = [c \in CallIds |-> ContextOf("idle", 0, 0, 0, 1)]

SpecShared == InitShared /\ [][NextShared]_vars

(***************************************************************************)
(* The context the error hooks of a call are handed                        *)
(***************************************************************************)
\* the transport of call c rejects: the catch clause is entered
TransportRejects(c) ==
    /\ calls[c].pc = "sending"
    /\ calls' = [calls EXCEPT ![c].pc = "errorHooks", ![c].i = 1]
    /\ UNCHANGED <<bags, Elsewhere>>

\* the next error hook of call c runs: it is handed
\* this.buildRequestContextFromArgs(metadata, args), a context built anew
\* from the endpoint and the arguments of the call
RunErrorHook(c) ==
    LET m == calls[c].endpoint
        rp == calls[c].passed
        newQuery == m.query.kind # "true"
        newParams == m.params.kind # "true"
        allocated ==
            <<processHeaders(TRUE, bags[rp.headers], m.headers)>>
              \o (IF newQuery
                  THEN <<processQuery(TRUE, bags[rp.query], m.query)>>
                  ELSE << >>)
              \o (IF newParams
                  THEN <<processParams(TRUE, bags[rp.params], m.params)>>
                  ELSE << >>)
    IN  /\ calls[c].pc = "errorHooks"
        /\ calls[c].i <= Len(errorHooks)
        /\ bags' = bags \o allocated
        /\ calls' = [calls EXCEPT
               ![c].i = @ + 1,
               ![c].seen = Append(@,
                   [headers |-> Len(bags) + 1,
                    query |-> IF newQuery THEN Len(bags) + 2 ELSE rp.query,
                    params |-> IF newParams THEN Len(bags) + Len(allocated)
                               ELSE rp.params])]
        /\ UNCHANGED Elsewhere

\* hooks are registered, then one call is made: its request hooks run, its
\* transport rejects, its error hooks run
NextRebuilt ==
    \/ \E h \in AssigningHooks : NoneCalled /\ addRequestHook(h)
    \/ NoneCalled /\ addErrorHook("pass")
    \/ \E m \in SharedEndpoints, rp \in SharedParams : BuildContext(1, m, rp)
    \/ RunRequestHook(1)
    \/ HandOver(1)
    \/ TransportRejects(1)
    \/ RunErrorHook(1)

SpecRebuilt == InitShared /\ [][NextRebuilt]_vars

(***************************************************************************)
(* Hooks registered and cleared while a call is in its request-hook loop   *)
(***************************************************************************)
\* call c is suspended in `await hook(context)` of its request-hook loop
Suspended(c) ==
    calls[c].pc = "requestHooks" /\ calls[c].i <= Len(Iterated(c))

\* addRequestHook(h) while call c is suspended: this.requestHooks.push(h),
\* onto the array of the loop unless clearHooks() has replaced it
PushWhileSuspended(c, h) ==
    /\ Suspended(c)
    /\ HookCount < MaxHooks
    /\ Len(calls[c].appended) < MaxHooks
    /\ requestHooks' = Append(requestHooks, h)
    /\ calls' = [calls EXCEPT
           ![c].appended = Append(@, h),
           ![c].joined = IF calls[c].detached THEN @ ELSE Append(@, h)]
    /\ UNCHANGED <<config, responseHooks, errorHooks, frame, defaults,
                   parameterMetadata, endpointMetadata, arrays, objects,
                   timers, console, thrown, applied, properties,
                   boundMethods, bags>>

\* clearHooks() while call c is suspended: this.requestHooks is assigned a
\* new empty array, the loop keeps the array it iterates
ClearWhileSuspended(c) ==
    /\ Suspended(c)
    /\ requestHooks' = << >>
    /\ responseHooks' = << >>
    /\ errorHooks' = << >>
    /\ calls' = [calls EXCEPT
           ![c].detached = TRUE,
           ![c].kept = Iterated(c)]
    /\ UNCHANGED <<config, frame, defaults, parameterMetadata,
                   endpointMetadata, arrays, objects, timers, console,
                   thrown, applied, properties, boundMethods, bags>>

\* hooks are registered, one call is made, and while it is suspended in a
\* request hook further hooks are registered and the hooks are cleared
NextSuspended ==
    \/ \E h \in AssigningHooks : NoneCalled /\ addRequestHook(h)
    \/ \E m \in SharedEndpoints, rp \in SharedParams : BuildContext(1, m, rp)
    \/ \E h \in AssigningHooks : PushWhileSuspended(1, h)
    \/ ClearWhileSuspended(1)
    \/ RunRequestHook(1)
    \/ HandOver(1)

SpecSuspended == InitShared /\ [][NextSuspended]_vars

(***************************************************************************)
(* Properties                                                              *)
(***************************************************************************)
\* the position of a stage in the pipeline of the specification
Rank(x) ==
    CASE x = "build" -> 1
      [] x = "requestHook" -> 2
      [] x = "validateRequest" -> 3
      [] x = "transport" -> 4
      [] x = "validateResponse" -> 5
      [] x = "mapper" -> 6
      [] x = "responseHook" -> 7
      [] x = "inject" -> 8
      [] x = "body" -> 9
      [] OTHER -> 10

\* the catch clause has been entered
ErrorHandling == pc \in {"errorHooks", "Failed"}

\* the request-hook loop has run to its end
RequestHooksDone ==
    pc \notin {"idle", "requestHooks"} /\ error # RawError("requestHook")

\* C1: once the request hooks are through, for a context with a
\* requestSchema, request validation enabled and a body the schema rejects,
\* the call is in error handling with a ValidationError tagged `request`,
\* rejects with that very error, and the transport has not been invoked.
C1_RequestValidation ==
    (/\ RequestHooksDone
     /\ context.requestSchema
     /\ RequestValidationEnabled(config, metadata)
     /\ context.body = "bad")
    => /\ ErrorHandling
       /\ error = ValidationError("request")
       /\ error.code = "VALIDATION_ERROR"
       /\ Count(trace, "transport") = 0
       /\ ~sent.done
       /\ pc = "Failed" => result = Rejected(ValidationError("request"))

\* a call with a rejected body on an endpoint declaring an error class
\* failed, with error hooks registered, without reaching the transport
C1_Witness ==
    /\ pc = "Failed"
    /\ args[1].body = "bad"
    /\ metadata.requestSchema
    /\ metadata.errorType
    /\ Len(errorHooks) > 0
    /\ result.error.type = "request"
    /\ ~sent.done

\* C2: when the transport has returned data the responseSchema rejects,
\* on a context with a responseSchema and response validation enabled, the
\* call is in error handling with a ValidationError tagged `response`,
\* rejects with that very error, and no response hook has run.
C2_ResponseValidation ==
    (/\ response.status = "fulfilled"
     /\ response.data.payload = "garbage"
     /\ context.responseSchema
     /\ ResponseValidationEnabled(config, metadata))
    => /\ ErrorHandling
       /\ error = ValidationError("response")
       /\ Count(trace, "responseHook") = 0
       /\ pc = "Failed" => result = Rejected(ValidationError("response"))

\* a call failed on a rejected payload while a response hook was registered
C2_Witness ==
    /\ pc = "Failed"
    /\ response.data.payload = "garbage"
    /\ Len(responseHooks) > 0
    /\ result.error.type = "response"
    /\ Count(trace, "responseHook") = 0

\* C3: in a call that completed, the stages performed are in pipeline order
\* (only hooks repeat), and each is performed exactly as often as it applies:
\* one build, every request hook, one request validation when enabled with
\* a schema and a body, one transport call, one response validation when
\* enabled with a schema, one mapper call when configured, every response
\* hook, one injection, one run of the method body.
C3_StageOrder ==
    pc = "Completed"
    => /\ \A j, k \in 1..Len(trace) : j < k => Rank(trace[j]) <= Rank(trace[k])
       /\ \A j, k \in 1..Len(trace) :
             (j < k /\ Rank(trace[j]) = Rank(trace[k]))
             => trace[j] \in {"requestHook", "responseHook"}
       /\ Count(trace, "build") = 1
       /\ Count(trace, "requestHook") = Len(requestHooks)
       /\ Count(trace, "validateRequest") =
             (IF /\ context.requestSchema
                 /\ RequestValidationEnabled(config, metadata)
                 /\ context.body # Undefined
              THEN 1 ELSE 0)
       /\ Count(trace, "transport") = 1
       /\ Count(trace, "validateResponse") =
             (IF /\ context.responseSchema
                 /\ ResponseValidationEnabled(config, metadata)
              THEN 1 ELSE 0)
       /\ Count(trace, "mapper") = (IF context.mapper = "none" THEN 0 ELSE 1)
       /\ Count(trace, "responseHook") = Len(responseHooks)
       /\ Count(trace, "inject") = 1
       /\ Count(trace, "body") = 1
       /\ Count(trace, "errorHook") = 0

\* a call completed after performing every stage, hooks included
C3_Witness ==
    /\ pc = "Completed"
    /\ Len(requestHooks) > 0
    /\ Len(responseHooks) > 0
    /\ Count(trace, "validateRequest") = 1
    /\ Count(trace, "validateResponse") = 1
    /\ Count(trace, "mapper") = 1

TaxonomyCodes ==
    {"VALIDATION_ERROR", "NETWORK_ERROR", "CUSTOM_ERROR", "EXECUTION_ERROR",
     "CONFIGURATION_ERROR"}

C5_CustomErrorWrapping ==
    (pc = "Failed" /\ metadata.errorType)
    => IF IsHttpDecoratorError(error)
       THEN result.error = error /\ result.error.cls # "CustomError"
       ELSE /\ result.error.cls = "CustomError"
            /\ result.error.originalError = error.id
            /\ result.error.errorType = ErrorTypeName

\* a call of an endpoint declaring an error class failed on a taxonomy error
C5_Witness ==
    /\ pc = "Failed"
    /\ metadata.errorType
    /\ IsHttpDecoratorError(error)
    /\ result.error.cls \in {"ValidationError", "NetworkError"}

\* C6: when a call fails on a NetworkError and an error hook throws, the
\* exception of the hook is dropped (the next hook is handed what the
\* throwing hook was handed), every registered error hook runs, and the
\* caller receives the NetworkError that was caught.
C6_ThrowingErrorHook ==
    (/\ pc = "Failed"
     /\ error = NetworkError
     /\ \E k \in 1..Len(errorHooks) : errorHooks[k] = "throw")
    => /\ result = Rejected(NetworkError)
       /\ Len(errLog) = Len(errorHooks)
       /\ Count(trace, "errorHook") = Len(errorHooks)
       /\ \A k \in 1..(Len(errLog) - 1) :
             errorHooks[k] = "throw" => errLog[k + 1].input = errLog[k].input

\* a call failed on a NetworkError with a throwing error hook registered
\* before another error hook
C6_Witness ==
    /\ pc = "Failed"
    /\ error = NetworkError
    /\ Len(errorHooks) = 2
    /\ errorHooks[1] = "throw"
    /\ Len(errLog) = 2
    /\ result.error.code = "NETWORK_ERROR"

\* C7: a call in error handling stays there until it fails, a failed call
\* never becomes a completed one, and failing is rejecting the promise.
C7_NoRecovery ==
    [][/\ pc = "errorHooks" => pc' \in {"errorHooks", "Failed"}
       /\ pc = "Failed" => pc' \in {"Failed", "idle"}
       /\ pc' = "Failed" => result'.status = "rejected"]_vars

\* a call failed after an error hook returned another error and another
\* error hook threw
C7_Witness ==
    /\ pc = "Failed"
    /\ Len(errLog) = 2
    /\ \E k \in 1..2 : errorHooks[k] = "replace"
    /\ \E k \in 1..2 : errorHooks[k] = "throw"
    /\ result.status = "rejected"

\* C8: the request hooks run in registration order; the first is handed the
\* built context and each later one the context its predecessor returned;
\* once the loop is through, the context the last hook returned is the one
\* whose body is validated and which is handed to the transport.
C8_RequestHookChain ==
    LET built == buildRequestContextFromArgs(metadata, args)
        last == IF Len(reqLog) = 0
                THEN built
                ELSE ApplyRequestHook(requestHooks[Len(reqLog)],
                                      reqLog[Len(reqLog)].input)
    IN  /\ \A k \in 1..Len(reqLog) :
              /\ reqLog[k].hook = k
              /\ reqLog[k].input =
                    IF k = 1
                    THEN built
                    ELSE ApplyRequestHook(requestHooks[k - 1],
                                          reqLog[k - 1].input)
        /\ RequestHooksDone
           => /\ Len(reqLog) = Len(requestHooks)
              /\ context = last
              /\ validated.done => validated.body = last.body
              /\ sent.done => sent = executeRequest(last)

\* the second of two request hooks was handed the header the first added,
\* and the request went out with it
C8_Witness ==
    /\ pc = "sending"
    /\ Len(reqLog) = 2
    /\ requestHooks[1] = "addX"
    /\ "X" \notin KeysOf(reqLog[1].input.headers)
    /\ "X" \in KeysOf(reqLog[2].input.headers)
    /\ "X" \in KeysOf(sent.headers)

\* the position of the first throwing hook of the list l, 0 when none throws
FirstThrow(l) ==
    IF \E k \in 1..Len(l) : l[k] = "throw"
    THEN CHOOSE k \in 1..Len(l) :
            l[k] = "throw" /\ \A n \in 1..(k - 1) : l[n] # "throw"
    ELSE 0

C10_ReplacementPropagates ==
    /\ \A k \in 1..Len(errLog) :
          errLog[k].input =
             IF k = 1
             THEN error
             ELSE IF errorHooks[k - 1] = "throw"
                  THEN errLog[k - 1].input
                  ELSE ApplyErrorHook(errorHooks[k - 1], errLog[k - 1].input)
    /\ pc = "Failed" => result = Rejected(Classify(metadata, processedError))

\* the response data the mapper was handed: response.data, parsed by the
\* responseSchema when response validation applies
ValidatedData ==
    IF context.responseSchema /\ ResponseValidationEnabled(config, metadata)
    THEN validateResponse(response.data)
    ELSE response.data

\* the value the hooks of the list l, none of which throws, make of data
RECURSIVE HookedBy(_, _)
HookedBy(l, data) ==
    IF l = << >> THEN data
    ELSE HookedBy(Tail(l), ApplyResponseHook(Head(l), data))

\* the binding that fills argument k last
BindingOf(m, k) ==
    m.parameters[CHOOSE n \in 1..Len(m.parameters) :
                    /\ m.parameters[n].index = k
                    /\ \A n2 \in (n + 1)..Len(m.parameters) :
                           m.parameters[n2].index # k]

\* C11 as claimed: in a completed call of an endpoint with a mapper, the
\* output of the mapper for the validated response data is the value of
\* every @Response() argument of the method body and the value the call
\* resolves to.
C11_MapperOutputInjectedAndReturned ==
    (pc = "Completed" /\ context.mapper = "fn")
    => /\ \A k \in ResponseSlots(metadata) :
             injectedArgs[k].value = mapper(ValidatedData)
       /\ result = Resolved(mapper(ValidatedData))

\* C11 as amended: once the method body of an endpoint with a mapper has
\* been called, every @Response() argument holds the output of the mapper
\* for the validated response data as the response hooks, run in order,
\* have changed it (the output of the mapper itself when no response hook
\* is registered), parsed by the schema of the binding when it has one;
\* the call resolves to what the method body returns, which is that
\* argument when the body returns it.
C11_HookedMapperOutputInjected ==
    (pc \in {"body", "Completed"} /\ context.mapper = "fn")
    => LET expected == HookedBy(responseHooks, mapper(ValidatedData))
       IN  /\ \A k \in ResponseSlots(metadata) :
                 /\ injectedArgs[k].slot = "response"
                 /\ injectedArgs[k].value =
                       ParamSchemaParse(BindingOf(metadata, k),
                           Slot("response", TRUE, expected)).value
                 /\ (responseHooks = << >> /\ ~BindingOf(metadata, k).schema)
                    => injectedArgs[k].value = mapper(ValidatedData)
           /\ pc = "Completed"
              => /\ result.status = "resolved"
                 /\ \/ result.value = BodyResult
                    \/ \E k \in ResponseSlots(metadata) :
                          result.value = injectedArgs[k].value

\* a call with a mapper and a response hook completed: both @Response()
\* arguments hold the mapped data as the hook changed it, and the body
\* returned it
C11_Witness ==
    /\ pc = "Completed"
    /\ context.mapper = "fn"
    /\ Len(responseHooks) > 0
    /\ ResponseSlots(metadata) = {1, 2}
    /\ injectedArgs[1].value.mapped
    /\ injectedArgs[2].value.hooked > 0
    /\ result.value = injectedArgs[1].value

\* no two bindings of the array b share (index, type)
NoSharedBinding(b) ==
    \A j, k \in 1..Len(b) :
        (b[j].index = b[k].index /\ b[j].type = b[k].type) => j = k

\* the bindings a lookup finds for method m of target t in the metadata
\* `store` over the arrays `heap`
StoredBindings(store, heap, t, m) ==
    IF getMetadata(store, t, m) = 0
    THEN << >>
    ELSE heap[getMetadata(store, t, m)]

MisdeclaredLast ==
    /\ applied.op = "endpoint"
    /\ timers = << >>
    /\ validateMethodConfigurationThrows(
           objects[endpointMetadata[applied.target][applied.method]])

\* C18 as claimed: once the declaration of an endpoint with a @Response()
\* binding and neither a responseSchema nor a mapper has been validated, a
\* ConfigurationError has been thrown to the declaring code.
C18_ConfigurationErrorSurfaced ==
    MisdeclaredLast => thrown.code = "CONFIGURATION_ERROR"

\* C18 as amended: the ConfigurationError of such a declaration is raised
\* on a timer tick after the declaration, caught where it is raised and
\* written to the error console; nothing is thrown to the declaring code
\* and the endpoint stays registered.
C18_ConfigurationErrorLogged ==
    MisdeclaredLast
    => /\ thrown = NoError
       /\ \E n \in 1..Len(console) :
             console[n] = [level |-> "error", code |-> "CONFIGURATION_ERROR",
                           target |-> applied.target,
                           method |-> applied.method]
       /\ endpointMetadata[applied.target][applied.method] # 0

\* an endpoint was declared after a @Response() parameter decorator,
\* without a schema or a mapper, and its validation has run
C18_Witness ==
    /\ MisdeclaredLast
    /\ applied.count = 2
    /\ Len(console) = 1
    /\ console[1].level = "error"

\* the bag without its n-th entry
Without(bag, n) == SubSeq(bag, 1, n - 1) \o SubSeq(bag, n + 1, Len(bag))

\* C13: for a URL template containing `:id` and an allowed path parameter
\* id with value v, the URL handed to the transport has `:id` replaced by
\* the percent-encoded string form of v (the other allowed path parameters
\* being substituted in the rest of the template).
C13_PathParamSubstituted ==
    sent.done =>
        \A n \in 1..Len(context.params) :
            LET e == context.params[n]
                hole == <<":">> \o KeyChars(e.key)
            IN  IndexOf(context.url, hole) > 0 =>
                    sent.url =
                        SubstituteParams(
                            Replace(context.url, hole,
                                    encodeURIComponent(String(e.value))),
                            Without(context.params, n))

\* the keys of the caller's bag an allow-policy lets through
PolicyKeys(bag, policy) ==
    CASE policy.kind \in {"absent", "false"} -> {}
      [] policy.kind = "true" -> KeysOf(bag)
      [] OTHER -> KeysOf(bag) \cap policy.on

\* C14: in the bag-of-roles convention the context bag of headers, of query
\* and of path params is empty under the policy none, has exactly the
\* caller's keys under the policy all, and has exactly the caller's keys the
\* policy marks true under a named subset.
C14_PolicyFiltersBags ==
    (Len(args) = 1 /\ args[1].bag /\ requestHooks = << >>) =>
        /\ KeysOf(context.headers) =
               PolicyKeys(args[1].headers, metadata.headers)
        /\ KeysOf(context.query) = PolicyKeys(args[1].query, metadata.query)
        /\ KeysOf(context.params) =
               PolicyKeys(args[1].params, metadata.params)

\* endpoint.validateRequest ?? client.validateRequest
EndpointFlagFirst(c, m) ==
    IF m.validateRequest # Undefined
    THEN m.validateRequest = "true"
    ELSE c.validateRequest = "true"

\* C15: request validation is performed exactly when
\* (endpoint.validateRequest ?? client.validateRequest) is true, a
\* requestSchema exists and the context has a body; the flag of the endpoint
\* takes precedence over the default of the client.
C15_EndpointFlagPrecedes ==
    (Count(trace, "transport") + Count(trace, "validateRequest") > 0) =>
        (Count(trace, "validateRequest") = 1
            <=> /\ EndpointFlagFirst(config, metadata)
                /\ context.requestSchema
                /\ context.body # Undefined)

\* the transport was called and its promise settled without a response
TransportFailed ==
    /\ Count(trace, "transport") = 1
    /\ pc # "sending"
    /\ response.status # "fulfilled"

\* C16: with or without a client-level onError hook, a transport-level
\* failure makes the call fail with a NetworkError (code NETWORK_ERROR)
\* carrying the raw response and request.
C16_TransportFailureIsNetworkError ==
    TransportFailed =>
        /\ error = NetworkError
        /\ pc \in {"errorHooks", "Failed"}
        /\ pc = "Failed" => result = Rejected(NetworkError)

\* the mapper threw and the call has failed
MapperFailed == pc = "Failed" /\ error = RawError("mapper")

\* C17: an exception thrown by the configured mapper reaches the caller as
\* the very value the mapper threw, neither reclassified as EXECUTION_ERROR
\* nor wrapped as CustomError.
C17_MapperExceptionUnwrapped ==
    MapperFailed => result = Rejected(error)

\* C17 (amended): an exception of the mapper that is not an
\* HttpDecoratorError is caught with the rest of the pipeline skipped, the
\* error hooks run, and the caller receives a CustomError when the endpoint
\* declares an error class and an EXECUTION_ERROR otherwise, each carrying
\* the value the mapper threw.
C17_MapperExceptionClassified ==
    MapperFailed =>
        /\ result =
              Rejected(IF metadata.errorType
                       THEN CustomError("mapper", ErrorTypeName)
                       ELSE HttpDecoratorError("EXECUTION_ERROR", "mapper"))
        /\ result.error # error
        /\ Len(errLog) = Len(errorHooks)
        /\ Count(trace, "responseHook") + Count(trace, "inject")
              + Count(trace, "body") = 0

\* the mapper threw under an error hook and the caller got EXECUTION_ERROR
C17_Witness ==
    /\ MapperFailed
    /\ Len(errorHooks) > 0
    /\ result.error.code = "EXECUTION_ERROR"
    /\ result.error.originalError = "mapper"

\* C20: the transport is invoked at most once per call, whatever the outcome
\* of the call: once when the call got as far as sending, never before, and
\* never again after a failure of the transport, of response validation or
\* of a hook.
C20_TransportAtMostOnce ==
    /\ Count(trace, "transport") <= 1
    /\ Count(trace, "transport") = (IF sent.done THEN 1 ELSE 0)
    /\ pc \in {"Completed", "Failed"} /\ sent.done
          => Count(trace, "transport") = 1

\* a call failed on a transport failure after one request, error hooks run
C20_Witness ==
    /\ pc = "Failed"
    /\ error = NetworkError
    /\ Len(errorHooks) > 0
    /\ Len(errLog) = Len(errorHooks)
    /\ Count(trace, "transport") = 1

ResponseValidationRan == Count(trace, "validateResponse") = 1

\* the payload the call works with once the response has arrived: the one
\* the validator returned when validation ran, else the raw one
WorkingData ==
    IF ResponseValidationRan THEN validateResponse(response.data)
    ELSE response.data

\* C21: when response validation runs and succeeds, the value handed to the
\* mapper, the response hooks, the @Response() arguments and the result is
\* the value the validator returned, not the raw transport payload; when it
\* is skipped, the raw payload is used.
C21_ValidatedPayloadUsed ==
    (response.status = "fulfilled"
        /\ pc \in {"responseHooks", "body", "Completed"})
    => /\ responseData.payload = WorkingData.payload
       /\ responseData.mapped = (context.mapper = "fn")
       /\ pc \in {"body", "Completed"} =>
              \A k \in ResponseSlots(metadata) :
                  injectedArgs[k].value =
                      ParamSchemaParse(BindingOf(metadata, k),
                          Slot("response", TRUE,
                               HookedBy(responseHooks,
                                   IF context.mapper = "fn"
                                   THEN mapper(WorkingData)
                                   ELSE WorkingData))).value
       /\ (pc = "Completed" /\ result.value # BodyResult) =>
              \E k \in ResponseSlots(metadata) :
                  /\ result.value = injectedArgs[k].value
                  /\ ~BindingOf(metadata, k).schema =>
                         result.value.payload = WorkingData.payload

\* a payload with unknown keys was validated, mapped and returned by the
\* method body: the result holds the canonical payload
C21_Witness ==
    /\ pc = "Completed"
    /\ ResponseValidationRan
    /\ response.data.payload = "userExtra"
    /\ context.mapper = "fn"
    /\ ResponseSlots(metadata) = {1}
    /\ ~BindingOf(metadata, 1).schema
    /\ result.value = injectedArgs[1].value
    /\ result.value.payload = "user"

\* C22: for an endpoint with a requestSchema, request validation enabled
\* and a call that carries a body, whatever the request hooks do (change
\* the context, return another context, throw), a body does not reach the
\* transport without having been validated against the requestSchema.
C22_ValidationRegardlessOfHooks ==
    (/\ sent.done
     /\ metadata.requestSchema
     /\ RequestValidationEnabled(config, metadata)
     /\ EndpointFlagFirst(config, metadata)
     /\ buildRequestContextFromArgs(metadata, args).body # Undefined
     /\ sent.body # Undefined)
    => validated = [done |-> TRUE, body |-> sent.body]

\* the indices of the arguments bound by a @Request() decorator
RequestIndices(m) ==
    {m.parameters[n].index :
        n \in {n \in 1..Len(m.parameters) : m.parameters[n].type = "request"}}

\* C23: in a call of a method with a request-body binding, when the
\* argument at the bound index is defined the body of the built context,
\* and the body sent to the transport, is exactly that argument, whatever
\* fields the argument has.
C23_RequestBindingSuppliesBody ==
    \A k \in RequestIndices(metadata) :
        (pc # "idle" /\ k <= Len(args) /\ ArgValue(args[k]) # Undefined)
        => /\ context.body = ArgValue(args[k])
           /\ sent.done => sent.body = ArgValue(args[k])

\* the call under way was made in the positional convention
Positional == pc # "idle" /\ (Len(args) = 0 \/ ~args[1].bag)

Ascending(S) ==
    CHOOSE q \in [1..Cardinality(S) -> S] :
        \A j, k \in 1..Cardinality(S) : j < k => q[j] < q[k]

\* the uncovered arguments of the call under way, in argument order
Leftovers ==
    LET ks == Ascending(UndecoratedIndices(metadata, args))
    IN  [j \in 1..Len(ks) |-> ArgValue(args[ks[j]])]

\* the body the uncovered arguments form: the only one, or their array
LeftoverBody ==
    IF Len(Leftovers) = 1 THEN Leftovers[1] ELSE ArrayOf(Leftovers)

\* the call under way has a @Request() argument that is defined
RequestArgumentDefined ==
    \E k \in RequestIndices(metadata) :
        k <= Len(args) /\ ArgValue(args[k]) # Undefined

\* C25 as claimed: in the positional convention the arguments no binding
\* covers form the body: a single one is the body, several are the body as
\* a sequence in argument order.
C25_LeftoversAreBody ==
    (Positional /\ requestHooks = << >> /\ Len(Leftovers) > 0)
    => context.body = LeftoverBody

\* C25 as amended: in the positional convention the arguments no binding
\* covers form the body only when no @Request() argument that is defined
\* supplies it: then a single one is the body, several are the body as a
\* sequence in argument order, and with none the call has no body; a
\* defined @Request() argument is the body and the uncovered arguments are
\* left out.
C25_LeftoversAreBodyUnlessBound ==
    (Positional /\ requestHooks = << >>)
    => IF RequestArgumentDefined
       THEN \E k \in RequestIndices(metadata) :
                k <= Len(args) /\ context.body = ArgValue(args[k])
       ELSE IF Len(Leftovers) = 0 THEN context.body = Undefined
       ELSE context.body = LeftoverBody

\* a call of a method without @Request() passed two uncovered arguments
\* and a covered one: the two were sent as an array, in order
C25_Witness ==
    /\ Positional
    /\ sent.done
    /\ RequestIndices(metadata) = {}
    /\ Len(args) = 3
    /\ UndecoratedIndices(metadata, args) = {1, 3}
    /\ sent.body = "[bad,good]"

\* the bag of the context a binding of type t resolves from
ContextBag(t) ==
    CASE t = "query" -> context.query
      [] t = "headers" -> context.headers
      [] OTHER -> context.params

\* bag[key] is defined and is v
HoldsAt(bag, key, v) ==
    \E n \in 1..Len(bag) : bag[n].key = key /\ bag[n].value = v

\* the bindings of the call under way that are injected as outputs
OutputBindings ==
    {n \in 1..Len(metadata.parameters) :
        metadata.parameters[n].type
            \in {"response", "query", "headers", "params"}}

\* binding n is the last of the bindings of its index
FillsLast(n) ==
    \A n2 \in (n + 1)..Len(metadata.parameters) :
        metadata.parameters[n2].index # metadata.parameters[n].index

\* the argument v holds the value binding b resolves, as `parsed` makes of
\* the final result
Holds(b, v, parsed) ==
    /\ v.slot = b.type
    /\ b.type = "response" => v.value = parsed
    /\ (b.type # "response" /\ b.key = Undefined) =>
           v.defined /\ v.value = ContextBag(b.type)
    /\ (b.type # "response" /\ b.key # Undefined) =>
           IF b.key \in KeysOf(ContextBag(b.type))
           THEN v.defined /\ HoldsAt(ContextBag(b.type), b.key, v.value)
           ELSE ~v.defined

\* an injection failed: the call is in its catch clause with a
\* ValidationError tagged `request`, and the method body was not run
InjectionFailure ==
    (Count(trace, "inject") = 1 /\ Count(trace, "body") = 0) =>
        /\ pc \in {"errorHooks", "Failed"}
        /\ error = ValidationError("request")
        /\ FirstRejected(metadata, InjectionValues) > 0
        /\ pc = "Failed" => result = Rejected(ValidationError("request"))

\* C26 as claimed: when the original method body runs, for every response,
\* query, headers and params binding the argument at its index holds the
\* resolved value (the final result; the bag of the context, or bag[key]
\* for a binding with a key) in place of what the caller passed; when a
\* schema of a binding rejects the value the call fails with
\* ValidationError tagged `request` and the body is not run.
C26_ResolvedValueInjected ==
    /\ pc \in {"body", "Completed"} =>
           \A n \in OutputBindings :
               Holds(metadata.parameters[n],
                     injectedArgs[metadata.parameters[n].index],
                     responseData)
    /\ InjectionFailure

\* C26 as amended: when the original method body runs, the argument at the
\* index of a response, query, headers or params binding holds what the
\* binding registered last for that index resolves (the final result; the
\* bag of the context, or bag[key] for a binding with a key), and for a
\* binding with a schema what the schema returns for that value, in place
\* of what the caller passed; when a schema rejects a defined value the
\* call fails with ValidationError tagged `request` and the body is not run.
C26_InjectedBeforeBody ==
    /\ pc \in {"body", "Completed"} =>
           \A n \in OutputBindings :
               LET b == metadata.parameters[n]
                   v == injectedArgs[b.index]
               IN  FillsLast(n) =>
                       /\ Holds(b, v,
                                ParamSchemaParse(b,
                                    Slot("response", TRUE, responseData))
                                    .value)
                       /\ ~ParamSchemaThrows(b, v)
    /\ InjectionFailure

\* the method body ran with the query bag and query.id of the context in
\* place of the two arguments the caller passed
C26_Witness ==
    /\ pc = "Completed"
    /\ Len(args) = 2
    /\ Cardinality(OutputBindings) = 2
    /\ injectedArgs[1].slot = "query"
    /\ injectedArgs[1].value = context.query
    /\ context.query # EmptyBag
    /\ injectedArgs[2].slot = "query"
    /\ injectedArgs[2].value = Str(<<"7">>)

\* the bindings held by the endpoint descriptor stored for method m of
\* target t itself
DescriptorBindings(t, m) ==
    LET parameters == objects[endpointMetadata[t][m]].parameters
    IN  {arrays[parameters][n] : n \in 1..Len(arrays[parameters])}

\* the bindings of the array addParameterMetadata stored for method m of
\* target t itself: every binding added for (t, m) was pushed onto it
OwnBindings(t, m) ==
    IF parameterMetadata[t][m] = 0
    THEN {}
    ELSE {arrays[parameterMetadata[t][m]][n] :
              n \in 1..Len(arrays[parameterMetadata[t][m]])}

\* C27: whatever the order of setEndpointMetadata and addParameterMetadata,
\* the endpoint descriptor stored for a method of a type holds every
\* binding that was added for that method of that type
C27_DescriptorHoldsEveryBinding ==
    \A t \in Targets, m \in Methods :
        endpointMetadata[t][m] # 0 =>
            OwnBindings(t, m) \subseteq DescriptorBindings(t, m)

\* the pairs of a method name and the endpoint descriptor that
\* getEndpointMetadata finds for that method of target t
EndpointsOf(t) ==
    {<<m, getMetadata(endpointMetadata, t, m)>> :
        m \in {name \in Methods : getMetadata(endpointMetadata, t, name) # 0}}

\* C28: when a client is constructed from a type, getAllEndpointsMetadata
\* returns exactly the pairs of a method name and the descriptor found for
\* that method of the type, and exactly those methods are replaced
C28_BindsExactlyTheRegistered ==
    [][boundMethods' # boundMethods =>
          /\ getAllEndpointsMetadata(boundMethods'.target) =
                 EndpointsOf(boundMethods'.target)
          /\ boundMethods'.methods = EndpointsOf(boundMethods'.target)]_vars

\* the stage of the call that threw into the catch clause: the last one
\* performed before the first error hook
FailedStage == trace[IndexOf(trace, <<"errorHook">>) - 1]

Terminal == pc \in {"Completed", "Failed"}

\* C30: every call whose awaited hooks, transport, mapper and method body
\* settle reaches Completed, its promise resolved, or Failed, its promise
\* rejected, and from then on stays there with the same settlement
C30_CallSettlesOnce ==
    /\ (pc # "idle") ~> Terminal
    /\ [](pc = "Completed" => result.status = "resolved")
    /\ [](pc = "Failed" => result.status = "rejected")
    /\ [][Terminal => pc' = pc /\ result' = result]_vars

\* a call that ran request hooks and error hooks has failed
C30_Witness ==
    /\ pc = "Failed"
    /\ result.status = "rejected"
    /\ reqLog # << >>
    /\ errLog # << >>

\* what the context of concurrent call c holds
ContextContent(c) ==
    [headers |-> bags[calls[c].headers], query |-> bags[calls[c].query],
     params |-> bags[calls[c].params]]

\* C31: a request hook of one call never changes what the context of
\* another call under way holds
C31_ContextsNotShared ==
    [][\A c \in CallIds, d \in CallIds :
          (c # d /\ calls'[c].i = calls[c].i + 1 /\ calls[d].pc # "idle") =>
              ContextContent(d)' = ContextContent(d)]_vars

\* C32: a call runs the hooks registered when it is made.  The hooks of a
\* list run in the order of their registration; a call that got through
\* its request hooks, through its response hooks or through its error
\* handling ran every hook registered on that list, and so none after
\* clearHooks() until a hook is registered again
C32_HooksConsultedAtCallTime ==
    /\ \A k \in 1..Len(reqLog) : reqLog[k].hook = k
    /\ \A k \in 1..Len(errLog) : errLog[k].hook = k
    /\ Count(trace, "requestHook") <= Len(requestHooks)
    /\ Count(trace, "responseHook") <= Len(responseHooks)
    /\ Count(trace, "errorHook") <= Len(errorHooks)
    /\ (pc \notin {"idle", "requestHooks"} /\ error.id # "requestHook")
       => Count(trace, "requestHook") = Len(requestHooks)
    /\ pc \in {"body", "Completed"}
       => Count(trace, "responseHook") = Len(responseHooks)
    /\ pc = "Failed" => Count(trace, "errorHook") = Len(errorHooks)

\* a call made with a request hook and a response hook registered ran
\* both and completed
C32_Witness ==
    /\ pc = "Completed"
    /\ Len(requestHooks) = 1
    /\ Len(responseHooks) = 1
    /\ Len(reqLog) = 1
    /\ Count(trace, "responseHook") = 1

\* a character a placeholder name may go on with
NameChar(c) == c \notin {"/", ":", "%", " "}

\* the places of the placeholder `:name` in a URL: the name is followed by
\* the end of the URL or by a character that ends a name
PlaceholdersOf(url, name) ==
    LET hole == <<":">> \o KeyChars(name)
    IN  {p \in 1..(Len(url) + 1 - Len(hole)) :
            /\ SubSeq(url, p, p + Len(hole) - 1) = hole
            /\ p + Len(hole) <= Len(url) => ~NameChar(url[p + Len(hole)])}

\* C33: a request whose context holds no path parameter for a placeholder
\* of the template still goes to the transport, under a URL that holds the
\* placeholder as the template does
C33_UnresolvedPlaceholderKept ==
    sent.done =>
        \A name \in Keys :
            name \notin KeysOf(context.params) =>
                Cardinality(PlaceholdersOf(sent.url, name)) =
                    Cardinality(PlaceholdersOf(context.url, name))

\* the original method was called: its call is the stage `body`
BodyCalled == Count(trace, "body") > 0

\* C34: the original method is called at most once in a call, right after
\* the injection, and only in a call none of whose earlier stages failed:
\* the transport returned a response and nothing was thrown before
C34_BodyOnlyAfterSuccess ==
    /\ Count(trace, "body") <= 1
    /\ BodyCalled =>
          /\ trace[IndexOf(trace, <<"body">>) - 1] = "inject"
          /\ Count(trace, "inject") = 1
          /\ error \in {NoError, RawError("body")}
          /\ response.status = "fulfilled"

\* the original method threw: the catch clause caught its exception
BodyThrew == error.id = "body"

\* C35: an exception of the original method goes the way of every failure.
\* Every error hook runs and the first is handed the exception; the caller
\* receives the exception itself when it is an HttpDecoratorError, else a
\* CustomError when the endpoint declares an error class, else an
\* EXECUTION_ERROR, both holding the exception
C35_BodyExceptionHandled ==
    /\ BodyThrew => pc \in {"errorHooks", "Failed"}
    /\ (BodyThrew /\ errLog # << >>) => errLog[1].input = error
    /\ (BodyThrew /\ pc = "Failed") =>
          /\ Count(trace, "errorHook") = Len(errorHooks)
          /\ result.status = "rejected"
          /\ error.cls = "HttpDecoratorError" => result.error = error
          /\ (error.cls = "Error" /\ metadata.errorType) =>
                /\ result.error.code = "CUSTOM_ERROR"
                /\ result.error.errorType = ErrorTypeName
                /\ result.error.originalError = "body"
          /\ (error.cls = "Error" /\ ~metadata.errorType) =>
                /\ result.error.code = "EXECUTION_ERROR"
                /\ result.error.originalError = "body"

\* a method body threw an HttpDecoratorError under an endpoint that
\* declares an error class, an error hook ran, and the caller received the
\* exception as it was thrown
C35_Witness ==
    /\ pc = "Failed"
    /\ BodyThrew
    /\ error.cls = "HttpDecoratorError"
    /\ metadata.errorType
    /\ errLog # << >>
    /\ result.error.code = "NOT_FOUND"

(***************************************************************************)
(* C36: the schema of a @Request() binding                                 *)
(***************************************************************************)
\* the body of the call is rejected by the schema given to @Request()
RequestBindingRejects ==
    \E n \in 1..Len(metadata.parameters) :
        /\ metadata.parameters[n].type = "request"
        /\ ParamSchemaThrows(metadata.parameters[n],
                             ValueToInject(metadata.parameters[n],
                                           InjectionValues))

\* the body of the call is rejected by the requestSchema of the endpoint
EndpointSchemaRejects ==
    /\ context.requestSchema
    /\ RequestValidationEnabled(config, metadata)
    /\ validateRequestThrows(context)

\* C36: a body that only the schema of the @Request() binding rejects is
\* handed to the transport all the same; the schema is applied at the
\* injection, after the transport was called, and the call then fails with
\* a ValidationError tagged `request` without its method body being run.
C36_BindingSchemaCheckedAfterTransport ==
    (pc \notin {"idle", "requestHooks"}
       /\ RequestBindingRejects /\ ~EndpointSchemaRejects) =>
        /\ sent.done
        /\ sent.body = context.body
        /\ Count(trace, "transport") = 1
        /\ Count(trace, "validateRequest") = 0
        /\ Count(trace, "body") = 0
        /\ pc \in {"errorHooks", "Failed"} =>
               /\ error = ValidationError("request")
               /\ trace[Len(trace)] = "inject"
               /\ IndexOf(trace, <<"transport">>) < Len(trace)
        /\ pc = "Failed" => result = Rejected(ValidationError("request"))
        /\ pc # "Completed"

\* a call whose body only the schema of its @Request() binding rejects
\* failed at the injection, the body having been sent
C36_Witness ==
    /\ pc = "Failed"
    /\ RequestBindingRejects
    /\ ~EndpointSchemaRejects
    /\ sent.done
    /\ sent.body = "bad"
    /\ trace[Len(trace)] = "inject"
    /\ result = Rejected(ValidationError("request"))

(***************************************************************************)
(* C37: the body validated and the body sent                               *)
(***************************************************************************)
\* the request-hook loop is left: the request is validated and, unless
\* the validation throws, handed to the transport
LeavesRequestHooks ==
    pc = "requestHooks" /\ i > Len(requestHooks) /\ pc' # pc

\* C37: the step that validates the request and calls the transport
\* leaves the context as the request hooks returned it and runs no hook;
\* the body that was validated is the body of that context, and it is the
\* body the transport is handed: a body the schema rejects is never sent.
C37_ValidatedBodyIsSentBody ==
    /\ [][LeavesRequestHooks =>
             /\ context' = context
             /\ reqLog' = reqLog
             /\ Count(trace', "requestHook") = Count(trace, "requestHook")
             /\ Count(trace', "responseHook") = 0
             /\ validated'.done => validated'.body = context.body
             /\ sent'.done => sent' = executeRequest(context)]_vars
    /\ [](validated.done => validated.body = context.body)
    /\ [](sent.done => sent.body = context.body)
    /\ []((sent.done /\ validated.done) =>
             /\ sent.body = validated.body
             /\ ~validateRequestThrows(context)
             /\ trace[IndexOf(trace, <<"validateRequest">>) + 1]
                    = "transport")

\* a request hook ran, the body of the context it returned was validated
\* and the transport was handed that body
C37_Witness ==
    /\ pc = "sending"
    /\ Len(reqLog) > 0
    /\ validated.done
    /\ sent.done
    /\ sent.body = "good"
    /\ validated.body = "good"

(***************************************************************************)
(* C38: the context of the error hooks                                     *)
(***************************************************************************)
\* what the k-th context handed to an error hook of call c holds
SeenContent(c, k) ==
    [headers |-> bags[calls[c].seen[k].headers],
     query |-> bags[calls[c].seen[k].query],
     params |-> bags[calls[c].seen[k].params]]

\* C38: the context an error hook is handed is built anew from the endpoint
\* and the arguments of the call, and nothing a request hook of the call
\* assigned (the key X) is in its headers, its query or its params.
C38_ErrorHooksSeeRebuiltContext ==
    \A k \in 1..Len(calls[1].seen) :
        /\ calls[1].seen[k].headers # calls[1].headers
        /\ "X" \notin KeysOf(SeenContent(1, k).headers)
        /\ "X" \notin KeysOf(SeenContent(1, k).query)
        /\ "X" \notin KeysOf(SeenContent(1, k).params)

(***************************************************************************)
(* C39: the hook list changed under a call in its request-hook loop        *)
(***************************************************************************)
\* the request-hook loop of call 1 ends and its request goes to the
\* transport
LoopEnds == calls[1].pc = "requestHooks" /\ calls'[1].pc = "sending"

\* the last n elements of the sequence q
Last(q, n) == SubSeq(q, Len(q) - n + 1, Len(q))

\* C39 as claimed: a call that gets through its request-hook loop ran the
\* hooks registered when it was made and, after them, every hook that was
\* registered while it was suspended in the loop; clearHooks() in the
\* meantime took none of them away.
C39_InFlightSeesAppendedHooks ==
    [][LoopEnds =>
          /\ Len(calls[1].ran) = calls[1].started + Len(calls[1].appended)
          /\ Last(calls[1].ran, Len(calls[1].appended)) = calls[1].appended]_vars

\* C39 as amended: a call that gets through its request-hook loop ran the
\* hooks registered when it was made and, after them, every hook that was
\* registered while it was suspended in the loop and before clearHooks()
\* was called; clearHooks() took none of them away, and a hook registered
\* after it is not run by the call.
C39_InFlightSeesAppendedUntilCleared ==
    [][LoopEnds =>
          /\ Len(calls[1].ran) = calls[1].started + Len(calls[1].joined)
          /\ Last(calls[1].ran, Len(calls[1].joined)) = calls[1].joined
          /\ calls[1].ran = Iterated(1)
          /\ calls[1].detached =>
                 /\ calls[1].ran = calls[1].kept
                 /\ Len(calls[1].kept) > 0]_vars

\* a call made with one hook registered was handed over having run that
\* hook and one registered while it was suspended, though the hooks were
\* cleared before the second ran
C39_Witness ==
    /\ calls[1].pc = "sending"
    /\ calls[1].started = 1
    /\ Len(calls[1].joined) = 1
    /\ calls[1].detached
    /\ Len(calls[1].ran) = 2
    /\ requestHooks = << >>

(***************************************************************************)
(* C40: endpoint methods of a derived class                                *)
(***************************************************************************)
\* method `name` is an endpoint the class of the client inherits: its
\* prototype does not define the method, the descriptor is found on the
\* prototype it inherits from
InheritedEndpoint(name) ==
    /\ boundMethods.target = "Derived"
    /\ name \notin properties["Derived"]
    /\ name \in properties["Base"]
    /\ endpointMetadata["Base"][name] # 0

\* C40: on a client constructed from a derived class, with the endpoints
\* declared before the client was constructed, the call of an endpoint
\* method the class inherits enters the pipeline: the method body is not
\* run directly.
C40_InheritedEndpointsDispatch ==
    [][\A name \in Methods :
          (/\ calls[1].pc = "idle"
           /\ calls'[1].pc # "idle"
           /\ calls'[1].method = name
           /\ InheritedEndpoint(name)
           /\ boundMethods.methods =
                  getAllEndpointsMetadata(boundMethods.target))
          => calls'[1].pc = "requestHooks"]_vars

====
